---- MODULE Spec2Model ----
(***************************************************************************)
(* The document store of src/src/document_service.py: the in-memory maps   *)
(* documents, path_index and tag_index, the Whoosh full-text index beside  *)
(* them, and the operations that mutate and read them.                     *)
(***************************************************************************)
EXTENDS Integers, Sequences, FiniteSets, TLC

\* Number of last_updated bumps explored (datetime.now() is unbounded).
MaxUpdates == 3

\* Whoosh's searcher.search(query, limit=100).
SEARCH_LIMIT == 100

(***************************************************************************)
(* Files that load_document can find under the root.                       *)
(***************************************************************************)

\* Relative paths of the files under the root directory.
Paths == {"a.md", "b.txt"}

\* What a file at some path may hold when it is loaded: front-matter tags,
\* the body as its words, the mtime and the size.
FileVersions ==
    { [tags |-> <<"api", "rest">>,
       body |-> <<"deployment", "Guide", "for", "staging">>,
       created |-> 0, mtime |-> 1, size |-> 30],
      [tags |-> <<"ui">>,
       body |-> <<"user", "authentication", "guide", "authentication">>,
       created |-> 2, mtime |-> 2, size |-> 40] }

\* hashlib.md5(relative_path.encode()).hexdigest(): a digest per path.
_generate_document_id(relative_path) ==
    CASE relative_path = "a.md" -> "0cc175b9"
      [] relative_path = "b.txt" -> "92eb5ffe"
      [] relative_path = "d/G.md" -> "4a8a08f0"
      [] relative_path = "g.txt" -> "8277e091"
      [] relative_path = "A/c.MD" -> "e1671797"
      [] relative_path = "node_modules/x.md" -> "9dd4e461"
      [] relative_path = "n.py" -> "7b8b965a"
      [] OTHER -> "d41d8cd9"

\* file_path.suffix.lower()
Suffix(relative_path) ==
    CASE relative_path = "a.md" -> ".md"
      [] relative_path = "b.txt" -> ".txt"
      [] relative_path = "d/G.md" -> ".md"
      [] relative_path = "g.txt" -> ".txt"
      [] relative_path = "A/c.MD" -> ".md"
      [] relative_path = "node_modules/x.md" -> ".md"
      [] relative_path = "n.py" -> ".py"
      [] OTHER -> ""

\* file_path.stem, the title of a file with no title in front matter or body.
Stem(relative_path) ==
    CASE relative_path = "a.md" -> "a"
      [] relative_path = "b.txt" -> "b"
      [] relative_path = "d/G.md" -> "G"
      [] relative_path = "g.txt" -> "g"
      [] relative_path = "A/c.MD" -> "c"
      [] relative_path = "node_modules/x.md" -> "x"
      [] relative_path = "n.py" -> "n"
      [] OTHER -> ""

\* load_document of an existing, readable file: the DocumentContext it builds.
load_document(relative_path, file) ==
    [ id            |-> _generate_document_id(relative_path),
      title         |-> Stem(relative_path),
      content       |-> file.body,
      relative_path |-> relative_path,
      last_modified |-> file.mtime,
      size          |-> file.size,
      tags          |-> file.tags,
      created       |-> file.created,
      word_count    |-> Len(file.body),
      file_type     |-> Suffix(relative_path) ]

\* Every document load_document can return.
Documents == { load_document(p, f) : p \in Paths, f \in FileVersions }

DocumentIds == { _generate_document_id(p) : p \in Paths }

Range(s) == { s[i] : i \in DOMAIN s }

(***************************************************************************)
(* Python dict operations on the model's maps.  documents is an            *)
(* insertion-ordered dict, kept as the sequence of its values; path_index  *)
(* and tag_index are functions on the set of their keys.                   *)
(***************************************************************************)

EmptyDict == [k \in {} |-> k]

\* d.get(k, default)
DictGet(d, k, default) == IF k \in DOMAIN d THEN d[k] ELSE default

\* d[k] = v
DictSet(d, k, v) == [x \in DOMAIN d \cup {k} |-> IF x = k THEN v ELSE d[x]]

\* del d[k]
DictDel(d, k) == [x \in DOMAIN d \ {k} |-> d[x]]

\* The keys of the documents dict.
DocKeys(docs) == { docs[i].id : i \in DOMAIN docs }

\* documents.get(document_id): <<document>> or <<>> (None).
DocsGet(docs, document_id) ==
    IF document_id \in DocKeys(docs)
      THEN <<docs[CHOOSE i \in DOMAIN docs : docs[i].id = document_id]>>
      ELSE <<>>

\* A list in place of the dict: every add appends.
DocsSet_append(docs, document) == Append(docs, document)

\* documents[document.id] = document: an existing key keeps its position.
DocsSet(docs, document) ==
    IF document.id \in DocKeys(docs)
      THEN [i \in DOMAIN docs |->
              IF docs[i].id = document.id THEN document ELSE docs[i]]
      ELSE Append(docs, document)

\* The del of the primary map left out.
DocsDel_missing(docs, document_id) == docs

\* del documents[document_id]
DocsDel(docs, document_id) ==
    SelectSeq(docs, LAMBDA d : d.id # document_id)

(***************************************************************************)
(* The watched directory                                                   *)
(***************************************************************************)

\* The paths, relative to the root, a file may have: in the root itself, in
\* a directory, in an excluded directory, with an unsupported extension.
WatchedPaths == {"a.md", "d/G.md", "node_modules/x.md", "n.py"}

\* A file load_document returns None for: it catches every exception (bytes
\* that are not UTF-8, front matter that DocumentMetadata rejects).
Unloadable ==
    [tags |-> <<>>, body |-> <<>>, created |-> 0, mtime |-> 3, size |-> 1]

\* Whether load_document builds a document from the file.
Loads(file) == file # Unloadable

\* What a file at a path may hold.
VersionsAt(path) ==
    IF path = "a.md" THEN FileVersions \cup {Unloadable}
    ELSE {CHOOSE f \in FileVersions : f.mtime = 1}

\* The paths whose file comes, changes and goes; the other files stay.
ChangingPaths == {"a.md", "d/G.md"}

\* The directories the root can be: each path holds <<file>> or <<>> (no file).
Directories ==
    { d \in [WatchedPaths -> {<<>>} \cup { <<f>> : f \in FileVersions \cup {Unloadable} }] :
        \A p \in WatchedPaths :
            /\ d[p] = <<>> \/ d[p][1] \in VersionsAt(p)
            /\ p \notin ChangingPaths => d[p] # <<>> }

EmptyDirectory == [p \in WatchedPaths |-> <<>>]

VARIABLES
    files,         \* the files under the FileWatcher's root_path
    is_watching,   \* FileWatcher.is_watching
    observer,      \* whether FileWatcher.observer holds an Observer
    event_queue,   \* the Observer's queue of filesystem events to dispatch
    tasks,         \* the handler coroutines scheduled on the event loop
    dispatched,    \* the event the Observer dispatched last, and its fate
    connected_clients, \* MCPServer.connected_clients: the entries of the dict
    websockets,    \* the connection and the handle_websocket call of each client
    broadcast,     \* the broadcast_update coroutine
    documents,     \* DocumentService.documents, in insertion order
    path_index,    \* DocumentService.path_index: relative_path -> id
    tag_index,     \* DocumentService.tag_index: tag -> set of ids
    search_index,  \* the committed documents of the Whoosh index, by docnum
    last_updated,  \* DocumentService.last_updated, counted in bumps
    last,          \* the call that completed last
    prev           \* the fresh add, if it was one, that completed before it

\* MCPServer's clients and its broadcast.
socket_vars == <<connected_clients, websockets, broadcast>>

vars ==
    <<files, is_watching, observer, event_queue, tasks, dispatched, socket_vars,
      documents, path_index, tag_index, search_index, last_updated, last, prev>>

\* The FileWatcher, its directory and the server's sockets: what no call on
\* the DocumentService touches.
watcher_vars ==
    <<files, is_watching, observer, event_queue, tasks, dispatched, socket_vars>>

\* The client ids under which WebSocket clients connect.
ClientIds == {"c1", "c2", "c3"}

\* No broadcast_update has been called.
NoBroadcast ==
    [ pc |-> "idle", used |-> 0, pos |-> 0, len |-> 0, client |-> "",
      disconnected_clients |-> <<>>, error |-> "", count |-> 0 ]

\* MCPServer.__init__: connected_clients = {}; no client has connected.
NoSockets ==
    /\ connected_clients = <<>>
    /\ websockets = [c \in ClientIds |-> "new"]
    /\ broadcast = NoBroadcast

(***************************************************************************)
(* The Whoosh index.  A committed index is the sequence of its stored      *)
(* documents in docnum order; the schema's id field is unique.             *)
(***************************************************************************)

\* The fields add_document hands to writer.update_document.
IndexFields(document) ==
    [ id       |-> document.id,
      title    |-> document.title,
      content  |-> document.content,
      tags     |-> document.tags,
      path     |-> document.relative_path,
      modified |-> document.last_modified ]

\* The update written but never committed: readers see the old index.
update_document_uncommitted(idx, fields) == idx

\* writer.add_document in place of update_document: the stored document with
\* the same id stays in the index beside the new one.
update_document_add(idx, fields) == Append(idx, fields)

\* writer.update_document(**fields); writer.commit(): the stored document
\* with the same unique id is deleted and the new one is appended.
update_document(idx, fields) ==
    Append(SelectSeq(idx, LAMBDA e : e.id # fields.id), fields)

\* writer.delete_by_term('id', document_id); writer.commit()
delete_by_term(idx, document_id) ==
    SelectSeq(idx, LAMBDA e : e.id # document_id)

\* writer.commit(optimize=True) of a writer that added and deleted nothing:
\* the segments are merged and every stored document is kept.
commit_optimize(idx) == idx

\* The ids the index holds.
IndexIds(idx) == { idx[i].id : i \in DOMAIN idx }

\* How an index write can end: committed; update/delete/commit raised and the
\* handler cancelled the writer; search_index.writer() itself raised (the
\* call is outside the try block, so the exception leaves the method).
WriteOutcomes == {"ok", "write_error", "writer_error"}

(***************************************************************************)
(* The record of a completed call, kept for the claims about sequences of  *)
(* calls.                                                                  *)
(***************************************************************************)

\* get_statistics().total_files
total_files(docs) == Len(docs)

Call(op, id, doc, stored, outcome, docs) ==
    [ op |-> op, id |-> id, doc |-> doc, stored |-> stored,
      outcome |-> outcome, total_files |-> total_files(docs) ]

NoCall == Call("init", "", <<>>, FALSE, "none", <<>>)

\* What is remembered of the call before the last one: the id it newly stored
\* and get_statistics().total_files right after it, when it was an
\* add_document of an id that was not stored.
FreshAdd(call) ==
    IF call.op = "add" /\ ~call.stored
      THEN <<[id |-> call.id, relative_path |-> call.doc[1].relative_path,
              total_files |-> call.total_files]>>
      ELSE <<>>

(***************************************************************************)
(* Reads: get_document, get_statistics, search_documents                   *)
(***************************************************************************)

\* The lookup made in documents with the path as the key.
get_document_by_key(path) == DocsGet(documents, path)

\* get_document(path): <<document>> or <<>> (None).
get_document(path) ==
    IF path \notin DOMAIN path_index THEN <<>>
    ELSE DocsGet(documents, path_index[path])

\* str.lower() on the words and characters of the model.
Lower(w) ==
    CASE w = "Guide" -> "guide"
      [] w = "G" -> "g"
      [] w = "A" -> "a"
      [] w = "B" -> "b"
      [] w = "M" -> "m"
      [] w = "D" -> "d"
      [] w = ".MD" -> ".md"
      [] w = ".TXT" -> ".txt"
      [] OTHER -> w

\* The stop list of the StandardAnalyzer of a fields.TEXT field.
STOP_WORDS ==
    {"a", "an", "and", "are", "as", "at", "be", "by", "can", "for", "from",
     "have", "if", "in", "is", "it", "may", "not", "of", "on", "or", "tbd",
     "that", "the", "this", "to", "us", "we", "when", "will", "with", "yet",
     "you", "your"}

\* StandardAnalyzer: tokenize, lower-case, drop the stop words.
Analyze(words) == { Lower(words[i]) : i \in DOMAIN words } \ STOP_WORDS

\* Occurrences of a term in a content field.
TermFrequency(words, term) ==
    Cardinality({ i \in DOMAIN words : Lower(words[i]) = term })

RECURSIVE SumOver(_, _, _)
SumOver(S, words, acc) ==
    IF S = {} THEN acc
    ELSE LET t == CHOOSE x \in S : TRUE
         IN SumOver(S \ {t}, words, acc + TermFrequency(words, t))

\* hit.score: the BM25F weight, which grows with the frequency of the
\* query's terms in the content field.
Score(entry, terms) == SumOver(terms, entry.content, 0)

\* A stable insertion of the keyed element x into the sorted sequence s: x
\* goes after every element that does not sort after it.
RECURSIVE InsertSorted(_, _, _)
InsertSorted(s, x, reverse) ==
    IF s = <<>> THEN <<x>>
    ELSE LET stays == IF reverse THEN Head(s).key >= x.key
                                 ELSE Head(s).key <= x.key
         IN IF stays THEN <<Head(s)>> \o InsertSorted(Tail(s), x, reverse)
                     ELSE <<x>> \o s

\* list.sort(key=..., reverse=...) on elements [key, item]: stable in both
\* directions.
RECURSIVE StableSort(_, _)
StableSort(s, reverse) ==
    IF s = <<>> THEN <<>>
    ELSE InsertSorted(StableSort(SubSeq(s, 1, Len(s) - 1), reverse),
                      s[Len(s)], reverse)

\* The items of a keyed sequence.
Items(s) == [i \in DOMAIN s |-> s[i].item]

\* searcher.search(parser.parse(query_text), limit=100): the stored documents
\* holding every term of the query, best score first, at most 100 of them.
\* A query text with no term left after analysis parses to a NullQuery.
Hits(idx, query_text) ==
    LET terms == Analyze(query_text)
        matching == SelectSeq(idx, LAMBDA e : terms \subseteq Analyze(e.content))
        scored == [i \in DOMAIN matching |->
                     [key |-> Score(matching[i], terms),
                      item |-> [id |-> matching[i].id,
                                score |-> Score(matching[i], terms)]]]
        ranked == Items(StableSort(scored, TRUE))
    IN IF terms = {} THEN <<>>
       ELSE SubSeq(ranked, 1, IF Len(ranked) < SEARCH_LIMIT THEN Len(ranked)
                                                             ELSE SEARCH_LIMIT)

\* The characters of the words of the model.
Chars(word) ==
    CASE word = "deployment" -> <<"d", "e", "p", "l", "o", "y", "m", "e", "n", "t">>
      [] word = "Guide" -> <<"G", "u", "i", "d", "e">>
      [] word = "guide" -> <<"g", "u", "i", "d", "e">>
      [] word = "for" -> <<"f", "o", "r">>
      [] word = "staging" -> <<"s", "t", "a", "g", "i", "n", "g">>
      [] word = "user" -> <<"u", "s", "e", "r">>
      [] word = "authentication" ->
           <<"a", "u", "t", "h", "e", "n", "t", "i", "c", "a", "t", "i", "o", "n">>
      [] OTHER -> <<word>>

\* The text of a run of words: their characters, one space between two words.
RECURSIVE Text(_)
Text(words) ==
    IF words = <<>> THEN <<>>
    ELSE IF Len(words) = 1 THEN Chars(words[1])
    ELSE Chars(Head(words)) \o <<" ">> \o Text(Tail(words))

\* content.split('\n'): the lines of a content, each as its words; the word
\* "\n" ends a line.
RECURSIVE SplitLines(_, _)
SplitLines(words, line) ==
    IF words = <<>> THEN <<line>>
    ELSE IF Head(words) = "\n" THEN <<line>> \o SplitLines(Tail(words), <<>>)
    ELSE SplitLines(Tail(words), Append(line, Head(words)))

\* str.strip() for the blanks of the model.
RECURSIVE Strip(_)
Strip(chars) ==
    IF chars = <<>> THEN <<>>
    ELSE IF Head(chars) = " " THEN Strip(Tail(chars))
    ELSE IF chars[Len(chars)] = " " THEN Strip(SubSeq(chars, 1, Len(chars) - 1))
    ELSE chars

\* str.lower() of a text.
LowerSeq(s) == [i \in DOMAIN s |-> Lower(s[i])]

\* line_lower.find(query_lower): the first index, from 0, or -1.
Find(needle, haystack) ==
    LET query_lower == LowerSeq(needle)
        line_lower == LowerSeq(haystack)
        at == { k \in 0..(Len(line_lower) - Len(query_lower)) :
                  SubSeq(line_lower, k + 1, k + Len(query_lower)) = query_lower }
    IN IF at = {} THEN -1 ELSE CHOOSE k \in at : \A j \in at : k <= j

\* The matches _find_matches keeps for one document.
MAX_MATCHES == 5

\* _find_matches without the break at the fifth match.
_find_matches_uncapped(document, query) ==
    LET lines == SplitLines(document.content, <<>>)
        needle == Text(query)
        starts == [n \in DOMAIN lines |-> Find(needle, Text(lines[n]))]
    IN SelectSeq([n \in DOMAIN lines |->
                    [line |-> n,
                     text |-> Strip(Text(lines[n])),
                     start_index |-> starts[n],
                     end_index |-> starts[n] + Len(needle)]],
                 LAMBDA m : m.start_index # -1)

\* _find_matches: for each line holding the lower-cased query text, its
\* number, its stripped text and where the text starts and ends in the line;
\* the loop breaks at the fifth match.
_find_matches(document, query) ==
    LET lines == SplitLines(document.content, <<>>)
        needle == Text(query)
        starts == [n \in DOMAIN lines |-> Find(needle, Text(lines[n]))]
        found == SelectSeq([n \in DOMAIN lines |->
                              [line |-> n,
                               text |-> Strip(Text(lines[n])),
                               start_index |-> starts[n],
                               end_index |-> starts[n] + Len(needle)]],
                           LAMBDA m : m.start_index # -1)
    IN SubSeq(found, 1, IF Len(found) < MAX_MATCHES THEN Len(found) ELSE MAX_MATCHES)

\* The loop of _perform_text_search without the `if document:` test: a hit
\* that the store does not resolve is returned as what the index stored.
ResolveHits_unchecked(hits, docs, query_text) ==
    [i \in DOMAIN hits |->
       LET document == DocsGet(docs, hits[i].id)
       IN [document |-> IF document = <<>> THEN [id |-> hits[i].id] ELSE document[1],
           score |-> hits[i].score,
           matches |-> <<>>]]

\* _perform_text_search: the hits whose id the store still resolves.
RECURSIVE ResolveHits(_, _, _)
ResolveHits(hits, docs, query_text) ==
    IF hits = <<>> THEN <<>>
    ELSE LET document == DocsGet(docs, Head(hits).id)
         IN (IF document = <<>> THEN <<>>
             ELSE <<[document |-> document[1], score |-> Head(hits).score,
                     matches |-> _find_matches(document[1], query_text)]>>)
            \o ResolveHits(Tail(hits), docs, query_text)

_perform_text_search(idx, docs, query_text) ==
    ResolveHits(Hits(idx, query_text), docs, query_text)

\* The characters of a relative path.
PathChars(relative_path) ==
    CASE relative_path = "a.md" -> <<"a", ".", "m", "d">>
      [] relative_path = "b.txt" -> <<"b", ".", "t", "x", "t">>
      [] relative_path = "d/G.md" -> <<"d", "/", "G", ".", "m", "d">>
      [] relative_path = "g.txt" -> <<"g", ".", "t", "x", "t">>
      [] relative_path = "A/c.MD" -> <<"A", "/", "c", ".", "M", "D">>
      [] relative_path = "node_modules/x.md" ->
           <<"n", "o", "d", "e", "_", "m", "o", "d", "u", "l", "e", "s", "/",
             "x", ".", "m", "d">>
      [] relative_path = "n.py" -> <<"n", ".", "p", "y">>
      [] OTHER -> <<>>

\* needle in haystack, neither side lower-cased.
ContainsLower_exact(needle, haystack) ==
    \E k \in 0..(Len(haystack) - Len(needle)) :
        \A i \in 1..Len(needle) : needle[i] = haystack[k + i]

\* needle.lower() in haystack.lower()
ContainsLower(needle, haystack) ==
    \E k \in 0..(Len(haystack) - Len(needle)) :
        \A i \in 1..Len(needle) : Lower(needle[i]) = Lower(haystack[k + i])

\* The rank of a lower-cased title in string order.
TitleOrd(title) ==
    CASE Lower(title) = "a" -> 1
      [] Lower(title) = "b" -> 2
      [] Lower(title) = "c" -> 3
      [] Lower(title) = "g" -> 4
      [] OTHER -> 0

\* The key _sort_results sorts by; a missing metadata.created is datetime.min.
SortKey(r, sort_by) ==
    CASE sort_by = "relevance" -> r.score
      [] sort_by = "modified" -> r.document.last_modified
      [] sort_by = "created" -> r.document.created
      [] sort_by = "title" -> TitleOrd(r.document.title)

\* _sort_results sorting ascending and reversing the list for DESC.
_sort_results_reversed(results, sort_by, sort_order) ==
    LET ascending == Items(StableSort([i \in DOMAIN results |->
                                         [key |-> SortKey(results[i], sort_by),
                                          item |-> results[i]]],
                                      FALSE))
    IN IF sort_order = "desc"
         THEN [i \in DOMAIN ascending |-> ascending[Len(ascending) + 1 - i]]
         ELSE ascending

\* _sort_results
_sort_results(results, sort_by, sort_order) ==
    IF sort_by \in {"relevance", "modified", "created", "title"}
      THEN Items(StableSort([i \in DOMAIN results |->
                               [key |-> SortKey(results[i], sort_by),
                                item |-> results[i]]],
                            sort_order = "desc"))
      ELSE results

\* s[start:end + 1]: the end taken as the last index.
PySlice_inclusive(s, start, end) ==
    LET n == Len(s)
        Norm(i) == IF i < 0 THEN (IF i + n < 0 THEN 0 ELSE i + n)
                   ELSE IF i > n THEN n ELSE i
    IN SubSeq(s, Norm(start) + 1, Norm(end + 1))

\* s[start:end] of a Python list.
PySlice(s, start, end) ==
    LET n == Len(s)
        Norm(i) == IF i < 0 THEN (IF i + n < 0 THEN 0 ELSE i + n)
                   ELSE IF i > n THEN n ELSE i
    IN SubSeq(s, Norm(start) + 1, Norm(end))

\* ContextQuery(): query None, no filters, limit 10, offset 0, by relevance, desc.
\* None is the empty sequence, the empty string or 0.
ContextQuery ==
    [ query |-> <<>>, tags |-> <<>>, path |-> <<>>, file_type |-> "", since |-> 0,
      limit |-> 10, offset |-> 0, sort_by |-> "relevance", sort_order |-> "desc" ]

\* Every search sent to the index, a missing query text included.
Candidates_text_only(idx, docs, query) ==
    _perform_text_search(idx, docs, query.query)

\* The candidates of search_documents: the text search when there is a query
\* text, every stored document with score 1.0 and no matches otherwise.
Candidates(idx, docs, query) ==
    IF query.query # <<>>
      THEN _perform_text_search(idx, docs, query.query)
      ELSE [i \in DOMAIN docs |->
              [document |-> docs[i], score |-> 1, matches |-> <<>>]]

\* search_documents
search_documents_on(idx, docs, query) ==
    LET candidates == Candidates(idx, docs, query)
        by_tags ==
          IF query.tags # <<>>
            THEN SelectSeq(candidates, LAMBDA r :
                   \E i \in DOMAIN query.tags : query.tags[i] \in Range(r.document.tags))
            ELSE candidates
        by_path ==
          IF query.path # <<>>
            THEN SelectSeq(by_tags, LAMBDA r :
                   ContainsLower(query.path, PathChars(r.document.relative_path)))
            ELSE by_tags
        by_type ==
          IF query.file_type # ""
            THEN SelectSeq(by_path, LAMBDA r :
                   r.document.file_type = Lower(query.file_type))
            ELSE by_path
        by_since ==
          IF query.since # 0
            THEN SelectSeq(by_type, LAMBDA r :
                   r.document.last_modified >= query.since)
            ELSE by_type
        sorted == _sort_results(by_since, query.sort_by, query.sort_order)
    IN PySlice(sorted, query.offset, query.offset + query.limit)

search_documents(query) == search_documents_on(search_index, documents, query)

(***************************************************************************)
(* DocumentService.__init__                                                *)
(***************************************************************************)

\* _setup_search_index opens the index directory when it exists, with
\* whatever an earlier process committed to it, and creates it empty otherwise.
InitialIndexes ==
    {<<>>} \cup { <<IndexFields(load_document("a.md", f))>> : f \in FileVersions }

Init ==
    /\ files = EmptyDirectory
    /\ is_watching = FALSE
    /\ observer = FALSE
    /\ event_queue = <<>>
    /\ tasks = <<>>
    /\ dispatched = <<>>
    /\ NoSockets
    /\ documents = <<>>
    /\ path_index = EmptyDict
    /\ tag_index = EmptyDict
    /\ search_index \in InitialIndexes
    /\ last_updated = 0
    /\ last = NoCall
    /\ prev = <<>>

(***************************************************************************)
(* add_document                                                            *)
(***************************************************************************)

\* for tag in document.tags: self.tag_index[tag].add(document.id)
RECURSIVE TagIndexAdd(_, _, _)
TagIndexAdd(ti, tags, id) ==
    IF tags = <<>> THEN ti
    ELSE TagIndexAdd(DictSet(ti, Head(tags), DictGet(ti, Head(tags), {}) \cup {id}),
                     Tail(tags), id)

add_document(document, outcome) ==
    /\ last_updated < MaxUpdates
    /\ documents' = DocsSet(documents, document)
    /\ path_index' = DictSet(path_index, document.relative_path, document.id)
    /\ tag_index' = TagIndexAdd(tag_index, document.tags, document.id)
    /\ search_index' = IF outcome = "ok"
                         THEN update_document(search_index, IndexFields(document))
                         ELSE search_index
    /\ last_updated' = IF outcome = "writer_error"
                         THEN last_updated ELSE last_updated + 1
    /\ last' = Call("add", document.id, <<document>>,
                    document.id \in DocKeys(documents), outcome, documents')
    /\ prev' = FreshAdd(last)

(***************************************************************************)
(* remove_document                                                         *)
(***************************************************************************)

\* for tag in document.tags: discard the id, delete the tag's set when empty.
\* tag_index is a defaultdict: reading a missing tag yields an empty set.
RECURSIVE TagIndexDiscard(_, _, _)
TagIndexDiscard(ti, tags, id) ==
    IF tags = <<>> THEN ti
    ELSE LET rest == DictGet(ti, Head(tags), {}) \ {id}
         IN TagIndexDiscard(IF rest = {} THEN DictDel(ti, Head(tags))
                                         ELSE DictSet(ti, Head(tags), rest),
                            Tail(tags), id)

\* remove_document without the del of the path_index entry.
remove_document_keeps_path(document_id, outcome) ==
    LET found == DocsGet(documents, document_id) IN
    IF found = <<>>
      THEN /\ outcome = "ok"
           /\ last' = Call("remove", document_id, <<>>, FALSE, "none", documents)
           /\ prev' = FreshAdd(last)
           /\ UNCHANGED <<documents, path_index, tag_index, search_index, last_updated>>
      ELSE LET document == found[1] IN
           /\ last_updated < MaxUpdates
           /\ documents' = DocsDel(documents, document_id)
           /\ path_index' = path_index
           /\ tag_index' = TagIndexDiscard(tag_index, document.tags, document_id)
           /\ search_index' = IF outcome = "ok"
                                THEN delete_by_term(search_index, document_id)
                                ELSE search_index
           /\ last_updated' = IF outcome = "writer_error"
                                THEN last_updated ELSE last_updated + 1
           /\ last' = Call("remove", document_id, <<>>, TRUE, outcome, documents')
           /\ prev' = FreshAdd(last)

\* remove_document without the early return: an id that is not stored still
\* opens a writer, deletes by term and bumps last_updated.
remove_document_no_return(document_id, outcome) ==
    LET found == DocsGet(documents, document_id) IN
    IF found = <<>>
      THEN /\ outcome = "ok"
           /\ last_updated < MaxUpdates
           /\ search_index' = delete_by_term(search_index, document_id)
           /\ last_updated' = last_updated + 1
           /\ last' = Call("remove", document_id, <<>>, FALSE, "none", documents)
           /\ prev' = FreshAdd(last)
           /\ UNCHANGED <<documents, path_index, tag_index>>
      ELSE LET document == found[1] IN
           /\ last_updated < MaxUpdates
           /\ documents' = DocsDel(documents, document_id)
           /\ path_index' = DictDel(path_index, document.relative_path)
           /\ tag_index' = TagIndexDiscard(tag_index, document.tags, document_id)
           /\ search_index' = IF outcome = "ok"
                                THEN delete_by_term(search_index, document_id)
                                ELSE search_index
           /\ last_updated' = IF outcome = "writer_error"
                                THEN last_updated ELSE last_updated + 1
           /\ last' = Call("remove", document_id, <<>>, TRUE, outcome, documents')
           /\ prev' = FreshAdd(last)

remove_document(document_id, outcome) ==
    LET found == DocsGet(documents, document_id) IN
    IF found = <<>>
      THEN \* if not document: return (no writer is opened, so the outcome of
           \* a write is not drawn)
           /\ outcome = "ok"
           /\ last' = Call("remove", document_id, <<>>, FALSE, "none", documents)
           /\ prev' = FreshAdd(last)
           /\ UNCHANGED <<documents, path_index, tag_index, search_index, last_updated>>
      ELSE LET document == found[1] IN
           /\ last_updated < MaxUpdates
           \* del self.path_index[...] raises KeyError on a missing key; every
           \* stored document's path is a key (C2_PathIndexLockstep).
           /\ document.relative_path \in DOMAIN path_index
           /\ documents' = DocsDel(documents, document_id)
           /\ path_index' = DictDel(path_index, document.relative_path)
           /\ tag_index' = TagIndexDiscard(tag_index, document.tags, document_id)
           /\ search_index' = IF outcome = "ok"
                                THEN delete_by_term(search_index, document_id)
                                ELSE search_index
           /\ last_updated' = IF outcome = "writer_error"
                                THEN last_updated ELSE last_updated + 1
           /\ last' = Call("remove", document_id, <<>>, TRUE, outcome, documents')
           /\ prev' = FreshAdd(last)

(***************************************************************************)
(* clear_all_documents                                                     *)
(***************************************************************************)

clear_all_documents(outcome) ==
    /\ last_updated < MaxUpdates
    /\ documents' = <<>>
    /\ path_index' = EmptyDict
    /\ tag_index' = EmptyDict
    /\ search_index' = IF outcome = "ok"
                         THEN commit_optimize(search_index) ELSE search_index
    /\ last_updated' = IF outcome = "writer_error"
                         THEN last_updated ELSE last_updated + 1
    /\ last' = Call("clear", "", <<>>, FALSE, outcome, documents')
    /\ prev' = FreshAdd(last)

\* The ids a caller may pass to remove_document: those of the files, and one
\* of no file.
RemoveIds == DocumentIds \cup {_generate_document_id("missing.md")}

AddDocument ==
    /\ \E d \in Documents, o \in WriteOutcomes : add_document(d, o)
    /\ UNCHANGED watcher_vars

RemoveDocument ==
    /\ \E i \in RemoveIds, o \in WriteOutcomes : remove_document(i, o)
    /\ UNCHANGED watcher_vars

ClearAllDocuments ==
    /\ \E o \in WriteOutcomes : clear_all_documents(o)
    /\ UNCHANGED watcher_vars

Next ==
    \/ AddDocument
    \/ RemoveDocument
    \/ ClearAllDocuments

Spec == Init /\ [][Next]_vars

(***************************************************************************)
(* Properties of the store                                                 *)
(***************************************************************************)

Tags == UNION { Range(f.tags) : f \in FileVersions }

\* The query of a search for one word, everything else at its default.
TextQuery(word) == [ContextQuery EXCEPT !.query = <<word>>]

\* The documents a search returns.
Returned(query) ==
    LET results == search_documents(query)
    IN { results[i].document : i \in DOMAIN results }

\* C1: after every add_document or remove_document, every id in any
\* tag_index set is a key of documents.
C1_TagIdsAreStored ==
    \A t \in DOMAIN tag_index : tag_index[t] \subseteq DocKeys(documents)

\* C2: with ids derived from relative paths, path_index holds exactly one
\* entry per stored document: as many entries as documents, every value a key
\* of documents, and path_index[d.relative_path] = d.id for every stored d.
C2_PathIndexLockstep ==
    /\ Cardinality(DOMAIN path_index) = Len(documents)
    /\ \A p \in DOMAIN path_index : path_index[p] \in DocKeys(documents)
    /\ \A i \in DOMAIN documents :
          /\ documents[i].relative_path \in DOMAIN path_index
          /\ path_index[documents[i].relative_path] = documents[i].id

\* C2 witness: a remove of a stored document has left another one stored.
C2_Witness ==
    /\ last.op = "remove" /\ last.stored
    /\ Len(documents) = 1
    /\ Cardinality(DOMAIN path_index) = 1

\* C3: the tag index is exact: i is in tag_index[t] iff i is stored and t is
\* one of documents[i].tags, and no tag maps to an empty set.
C3_TagIndexExact ==
    /\ \A t \in Tags, i \in DocumentIds :
          (t \in DOMAIN tag_index /\ i \in tag_index[t])
            <=> (\E k \in DOMAIN documents :
                    documents[k].id = i /\ t \in Range(documents[k].tags))
    /\ \A t \in DOMAIN tag_index : tag_index[t] # {}

\* C4: after an add_document or remove_document whose index write was
\* committed, the index holds exactly the ids that are keys of documents.
C4_IndexMirrorsStore ==
    (last.op \in {"add", "remove"} /\ last.outcome = "ok")
      => IndexIds(search_index) = DocKeys(documents)

\* C5: after clear_all_documents (its commit having succeeded) the three maps
\* are empty and the index holds no document, so that no text query against
\* the index has a hit.
C5_ClearEmptiesIndex ==
    (last.op = "clear" /\ last.outcome = "ok")
      => /\ documents = <<>>
         /\ path_index = EmptyDict
         /\ tag_index = EmptyDict
         /\ search_index = <<>>
         /\ \A f \in FileVersions : \A i \in DOMAIN f.body :
               Hits(search_index, <<f.body[i]>>) = <<>>

Matching(word) ==
    SelectSeq(search_index, LAMBDA e : Analyze(<<word>>) \subseteq Analyze(e.content))

C7_LoadAddIdempotent ==
    (last.op = "add" /\ last.stored)
      => LET d == last.doc[1] IN
         /\ Cardinality({ i \in DOMAIN documents :
                            documents[i].relative_path = d.relative_path }) = 1
         /\ Cardinality({ i \in DOMAIN documents : documents[i].id = d.id }) = 1
         /\ d.relative_path \in DOMAIN path_index
         /\ path_index[d.relative_path] = d.id
         /\ d.id = _generate_document_id(d.relative_path)
         /\ DocsGet(documents, d.id) = <<d>>
         /\ total_files(documents) = Cardinality(DOMAIN path_index)

\* C7 witness: the same path was added twice in a row.
C7_Witness ==
    /\ last.op = "add" /\ last.stored
    /\ prev # <<>> /\ prev[1].id = last.id
    /\ Len(documents) = 1

\* C8: get_document(d.relative_path) right after add_document(d) is d, field
\* for field, whatever the store held before.
C8_RoundTrip ==
    last.op = "add" => get_document(last.doc[1].relative_path) = last.doc

\* C8 witness: an add replaced a stored document while another was stored.
C8_Witness ==
    /\ last.op = "add" /\ last.stored
    /\ Len(documents) = 2

\* C9: after add_document(d) of a document that was not stored and then
\* remove_document(d.id), get_document(d.relative_path) is None and
\* total_files is one less than right after the add.
C9_AddThenRemove ==
    (last.op = "remove" /\ prev # <<>> /\ prev[1].id = last.id)
      => /\ get_document(prev[1].relative_path) = <<>>
         /\ total_files(documents) = prev[1].total_files - 1

\* C9 witness: a fresh add into a non-empty store was followed by the remove
\* of its id.
C9_Witness ==
    /\ last.op = "remove" /\ last.outcome = "ok"
    /\ prev # <<>> /\ prev[1].id = last.id
    /\ Len(documents) = 1

\* C10: remove_document of an id that is not stored changes none of
\* documents, path_index, tag_index, the index and last_updated, and returns.
C10_RemoveAbsentIsNoop ==
    [][ (last'.op = "remove" /\ ~last'.stored)
          => /\ UNCHANGED <<documents, path_index, tag_index, search_index,
                            last_updated>>
             /\ last'.outcome = "none" ]_vars

\* C10 witness: an id that is not stored was removed from a non-empty store.
C10_Witness ==
    /\ last.op = "remove" /\ ~last.stored
    /\ documents # <<>>
    /\ last_updated > 0

(***************************************************************************)
(* Failures of the index write                                             *)
(***************************************************************************)

\* Whether a call whose index write ended this way raised to its caller. The
\* handler logs and cancels what update/delete/commit raise; what
\* search_index.writer() raises (a LockError while another writer holds the
\* index) is raised before the try block is entered.
Propagated(outcome) == outcome = "writer_error"

\* The in-memory effect of the last add_document or remove_document is in place.
MutationRetained ==
    IF last.op = "add"
      THEN LET d == last.doc[1] IN
           /\ DocsGet(documents, d.id) = <<d>>
           /\ d.relative_path \in DOMAIN path_index
           /\ path_index[d.relative_path] = d.id
           /\ \A i \in DOMAIN d.tags :
                 d.tags[i] \in DOMAIN tag_index /\ d.id \in tag_index[d.tags[i]]
      ELSE /\ last.id \notin DocKeys(documents)
           /\ \A p \in DOMAIN path_index : path_index[p] # last.id

\* C11: a failure of the index write during add_document or remove_document
\* (obtaining the writer, the update or delete, the commit) is not propagated
\* to the caller, and the in-memory mutation is retained.
C11_WriteFailureContained ==
    (last.op \in {"add", "remove"} /\ last.outcome \in {"write_error", "writer_error"})
      => /\ ~Propagated(last.outcome)
         /\ MutationRetained

(***************************************************************************)
(* Properties of search_documents on the store                             *)
(***************************************************************************)

\* The words of the files.
Words == UNION { Range(f.body) : f \in FileVersions }

\* The searches made of each state: no query text, and each word as the text.
SearchQueries == {ContextQuery} \cup { TextQuery(w) : w \in Words }

\* The ids Whoosh reports for a one-word query.
HitIds(word) ==
    LET hits == Hits(search_index, <<word>>) IN { hits[i].id : i \in DOMAIN hits }

\* C12: every document search_documents returns is currently in the
\* documents map; an id that only the index still holds is never returned.
C12_ReturnedAreStored ==
    \A q \in SearchQueries :
        LET results == search_documents(q) IN
        \A i \in DOMAIN results : results[i].document \in Range(documents)

\* C12 witness: the index delete of a remove_document failed, a search hits
\* the removed id, and the search returns only the document still stored.
C12_Witness ==
    /\ last.op = "remove" /\ last.stored /\ last.outcome = "write_error"
    /\ last.id \in HitIds("guide")
    /\ Cardinality(HitIds("guide")) = 2
    /\ Cardinality(Returned(TextQuery("guide"))) = 1

\* The stored documents whose current content holds the word, in any case.
Containing(word) ==
    { d \in Range(documents) :
        \E i \in DOMAIN d.content : Lower(d.content[i]) = Lower(word) }

LatestAddsCommitted ==
    \A i \in DOMAIN documents : IndexFields(documents[i]) \in Range(search_index)

AllStored ==
    [i \in DOMAIN documents |->
       [document |-> documents[i], score |-> 1, matches |-> <<>>]]

\* C14: with no query text the candidates of search_documents are every
\* stored document, each with score 1.0 and an empty match list, in store
\* insertion order; with no filter and a limit that fits them they are the
\* results.
C14_EmptyQueryCandidates ==
    /\ Candidates(search_index, documents, ContextQuery) = AllStored
    /\ search_documents(ContextQuery) = AllStored

\* C14 witness: two documents are stored, the first of them replaced after
\* the second was added, and the index does not hold what the store holds.
C14_Witness ==
    /\ Len(documents) = 2
    /\ last.op = "add" /\ last.stored /\ last.id = documents[1].id
    /\ ~LatestAddsCommitted
    /\ Len(search_documents(ContextQuery)) = 2
    /\ search_documents(ContextQuery)[1].document = last.doc[1]

(***************************************************************************)
(* search_documents as a function of the store and the query: the filters, *)
(* the sort and the pagination, applied to stores of up to five documents. *)
(***************************************************************************)

\* Widest offset and limit, either sign, of the paginated queries.
MaxOffset == 10
MaxLimit == 6

\* Five loaded files: tags {api}, {api,rest}, {ui}, none, {ui,api}; equal
\* and distinct mtimes; front matter with and without a created date (0 is
\* None); the titles "G" and "g"; an upper-case directory and extension.
SearchLibrary ==
    << load_document("a.md", [tags |-> <<"api">>,
                              body |-> <<"deployment", "guide", "for", "staging">>,
                              created |-> 0, mtime |-> 1, size |-> 30]),
       load_document("b.txt", [tags |-> <<"api", "rest">>,
                               body |-> <<"user", "authentication", "guide", "authentication">>,
                               created |-> 1, mtime |-> 1, size |-> 40]),
       load_document("d/G.md", [tags |-> <<"ui">>,
                                body |-> <<"Guide", "guide">>,
                                created |-> 2, mtime |-> 2, size |-> 11]),
       load_document("g.txt", [tags |-> <<>>,
                               body |-> <<"user", "staging">>,
                               created |-> 2, mtime |-> 2, size |-> 12]),
       load_document("A/c.MD", [tags |-> <<"ui", "api">>,
                                body |-> <<"guide">>,
                                created |-> 0, mtime |-> 3, size |-> 5]) >>

Reverse(s) == [i \in DOMAIN s |-> s[Len(s) + 1 - i]]

\* The documents added, in turn, to the stores searched: the first n of the
\* library, in its order or in the opposite order.
SearchStores ==
    { SubSeq(SearchLibrary, 1, n) : n \in 0..Len(SearchLibrary) }
      \cup { SubSeq(Reverse(SearchLibrary), 1, n) : n \in 0..Len(SearchLibrary) }

\* The service after add_document of each document in turn, every index
\* write committed.
RECURSIVE AddAll(_, _)
AddAll(service, docs) ==
    IF docs = <<>> THEN service
    ELSE LET document == Head(docs) IN
         AddAll([ documents |-> DocsSet(service.documents, document),
                  path_index |-> DictSet(service.path_index,
                                         document.relative_path, document.id),
                  tag_index |-> TagIndexAdd(service.tag_index, document.tags,
                                            document.id),
                  search_index |-> update_document(service.search_index,
                                                   IndexFields(document)) ],
                Tail(docs))

NewService ==
    [ documents |-> <<>>, path_index |-> EmptyDict, tag_index |-> EmptyDict,
      search_index |-> <<>> ]

\* Queries that set filters: tags, path, file_type and since, each absent or
\* present, with and without a query text.
FilterQueries ==
    { [ContextQuery EXCEPT !.query = text, !.tags = tags, !.path = path,
                           !.file_type = file_type, !.since = since] :
        text \in {<<>>, <<"guide">>},
        tags \in {<<>>, <<"api">>, <<"rest", "ui">>, <<"none">>},
        path \in {<<>>, <<"a">>, <<"a", "/">>, <<".", "M", "d">>, <<"G">>},
        file_type \in {"", ".md", ".MD", ".txt"},
        since \in {0, 2, 3} }

\* Queries that set the sort key and direction.
SortQueries ==
    { [ContextQuery EXCEPT !.query = text, !.sort_by = sort_by,
                           !.sort_order = sort_order] :
        text \in {<<>>, <<"guide">>},
        sort_by \in {"relevance", "modified", "created", "title"},
        sort_order \in {"asc", "desc"} }

\* Queries that set offset and limit; ContextQuery accepts any int for both.
PageQueries ==
    { [ContextQuery EXCEPT !.offset = offset, !.limit = limit] :
        offset \in -MaxOffset..MaxOffset, limit \in -MaxLimit..MaxLimit }

\* A caller holds a query for a service that holds some store.
InitSearch ==
    \E docs \in SearchStores :
    \E query \in FilterQueries \cup SortQueries \cup PageQueries :
        LET service == AddAll(NewService, docs) IN
        /\ files = EmptyDirectory
        /\ is_watching = FALSE
        /\ observer = FALSE
        /\ event_queue = <<>>
        /\ tasks = <<>>
        /\ dispatched = <<>>
        /\ NoSockets
        /\ documents = service.documents
        /\ path_index = service.path_index
        /\ tag_index = service.tag_index
        /\ search_index = service.search_index
        /\ last_updated = Len(docs)
        /\ last = [op |-> "query", query |-> query, results |-> <<>>]
        /\ prev = <<>>

\* search_documents(query), its return value kept in last.
Search(query) ==
    /\ last.op = "query"
    /\ last.query = query
    /\ last' = [op |-> "search", query |-> query,
                results |-> search_documents(query)]
    /\ UNCHANGED <<documents, path_index, tag_index, search_index,
                   last_updated, prev>>
    /\ UNCHANGED watcher_vars

SearchFiltered == \E query \in FilterQueries : Search(query)

SearchSorted == \E query \in SortQueries : Search(query)

SearchPaged == \E query \in PageQueries : Search(query)

\* What whoosh does with the text of a query: parser.parse and
\* searcher.search return, or one of them raises.
QueryOutcomes == {"ok", "parse_error", "search_error"}

\* _perform_text_search when whoosh behaves as the outcome says.  Neither it
\* nor search_documents has an except clause (the with statement closes the
\* searcher and lets the exception through), so what whoosh raises reaches
\* the caller of search_documents and nothing is returned.
search_documents_with(query, outcome) ==
    IF query.query # <<>> /\ outcome # "ok"
      THEN [raised |-> TRUE, results |-> <<>>]
      ELSE [raised |-> FALSE, results |-> search_documents(query)]

\* handle_search_docs: the text of the tool's result, from what its call of
\* search_documents did.
handle_search_docs(call) ==
    IF call.raised THEN "Error searching documents: ..."
    ELSE IF call.results = <<>>
           THEN "No documents found matching your search criteria."
           ELSE "Found n document(s): ..."

\* search_documents(query) with a query text whoosh fails on.
search_failing(query, outcome) ==
    LET call == search_documents_with(query, outcome) IN
    /\ last.op = "query"
    /\ last.query = query
    /\ query.query # <<>>
    /\ last' = [op |-> "search_failed", query |-> query,
                results |-> call.results, raised |-> call.raised,
                text |-> handle_search_docs(call)]
    /\ UNCHANGED <<documents, path_index, tag_index, search_index,
                   last_updated, prev>>
    /\ UNCHANGED watcher_vars

SearchFailing ==
    \E query \in FilterQueries \cup SortQueries :
    \E outcome \in QueryOutcomes \ {"ok"} : search_failing(query, outcome)

NextSearch ==
    \/ SearchFiltered
    \/ SearchSorted
    \/ SearchPaged
    \/ SearchFailing

SearchSpec == InitSearch /\ [][NextSearch]_vars

(***************************************************************************)
(* Properties of the filters, the sort and the pagination                  *)
(***************************************************************************)

\* needle is a substring of haystack when case is ignored.
SubstringIgnoringCase(needle, haystack) ==
    \E a \in 1..(Len(haystack) + 1) :
        /\ a + Len(needle) - 1 <= Len(haystack)
        /\ SubSeq(LowerSeq(haystack), a, a + Len(needle) - 1) = LowerSeq(needle)

\* The filters as the claim states them, each skipped when not supplied.
Survives(document, query) ==
    /\ query.tags = <<>> \/ Range(document.tags) \cap Range(query.tags) # {}
    /\ query.path = <<>>
         \/ SubstringIgnoringCase(query.path, PathChars(document.relative_path))
    /\ query.file_type = "" \/ Lower(document.file_type) = Lower(query.file_type)
    /\ query.since = 0 \/ document.last_modified >= query.since

\* C15: the filters are AND-combined and each is skipped when not supplied:
\* the results are exactly the candidates that share a tag with query.tags,
\* hold query.path in their relative_path and equal query.file_type, both
\* ignoring case, and were modified at or after since.
C15_FiltersAreAndCombined ==
    (last.op = "search" /\ last.query \in FilterQueries)
      => last.results =
           SelectSeq(Candidates(search_index, documents, last.query),
                     LAMBDA r : Survives(r.document, last.query))

\* C15 witness: of three documents tagged {api}, {api,rest} and {ui},
\* tags=['api'] returned exactly the first two.
C15_Witness ==
    /\ last.op = "search"
    /\ last.query = [ContextQuery EXCEPT !.tags = <<"api">>]
    /\ Len(documents) = 3
    /\ documents[1].tags = <<"api">>
    /\ documents[2].tags = <<"api", "rest">>
    /\ documents[3].tags = <<"ui">>
    /\ last.results = SubSeq(AllStored, 1, 2)

\* C16: the results are the candidates ordered by the selected key in the
\* requested direction, and candidates with equal keys keep their relative
\* candidate order, ascending and descending.
C16_SortIsStable ==
    (last.op = "search" /\ last.query \in SortQueries)
      => LET candidates == Candidates(search_index, documents, last.query)
             out == last.results
             Key(r) == SortKey(r, last.query.sort_by)
             Pos(r) == CHOOSE i \in DOMAIN candidates : candidates[i] = r
         IN /\ Len(out) = Len(candidates)
            /\ Range(out) = Range(candidates)
            /\ \A i, j \in DOMAIN out :
                  i < j =>
                    /\ last.query.sort_order = "desc" => Key(out[i]) >= Key(out[j])
                    /\ last.query.sort_order = "asc" => Key(out[i]) <= Key(out[j])
                    /\ Key(out[i]) = Key(out[j]) => Pos(out[i]) < Pos(out[j])

\* C16 witness: five documents sorted by created, descending: the two created
\* at 2 come first and the two with no created date last, each pair in its
\* candidate order.
C16_Witness ==
    /\ last.op = "search"
    /\ last.query = [ContextQuery EXCEPT !.sort_by = "created", !.sort_order = "desc"]
    /\ Len(documents) = 5
    /\ documents[1].relative_path = "a.md"
    /\ last.results = << AllStored[3], AllStored[4], AllStored[2],
                         AllStored[1], AllStored[5] >>

Min(a, b) == IF a < b THEN a ELSE b

Max(a, b) == IF a > b THEN a ELSE b

\* C17: for offset >= 0 and limit >= 0 the results are the window
\* results[offset : offset+limit] of the list: min(limit, max(0, n - offset))
\* of them, starting at the one at offset.
C17_PaginationWindow ==
    (last.op = "search" /\ last.query \in PageQueries
       /\ last.query.offset >= 0 /\ last.query.limit >= 0)
      => LET n == Len(AllStored) IN
         /\ Len(last.results) = Min(last.query.limit, Max(0, n - last.query.offset))
         /\ \A i \in DOMAIN last.results :
               last.results[i] = AllStored[last.query.offset + i]

\* C17 witness: of 5 matching documents, limit=2 and offset=4 returned one.
C17_Witness ==
    /\ last.op = "search"
    /\ Len(documents) = 5
    /\ last.query = [ContextQuery EXCEPT !.limit = 2, !.offset = 4]
    /\ last.results = <<AllStored[5]>>

\* C18: for any offset and limit, negative ones included, the results are the
\* slice clamped to the valid range: a negative offset behaves as 0 and a
\* negative limit returns nothing.
C18_PaginationClamps ==
    (last.op = "search" /\ last.query \in PageQueries)
      => LET n == Len(AllStored)
             offset == Max(last.query.offset, 0)
             limit == Max(last.query.limit, 0)
         IN last.results = SubSeq(AllStored, offset + 1, Min(n, offset + limit))

(***************************************************************************)
(* The FileWatcher of src/src/file_watcher.py and the other callers that   *)
(* load files into the store.  A caller makes several calls on the         *)
(* DocumentService in one step, so the service is a record here: the       *)
(* five fields of the store, the calls made so far, and whether the last   *)
(* call raised.                                                            *)
(***************************************************************************)

CurrentService ==
    [ documents |-> documents, path_index |-> path_index,
      tag_index |-> tag_index, search_index |-> search_index,
      last_updated |-> last_updated, calls |-> <<>>, raised |-> FALSE ]

\* add_document(document) on the service.
ServiceAdd(service, document, outcome) ==
    [ documents |-> DocsSet(service.documents, document),
      path_index |-> DictSet(service.path_index, document.relative_path, document.id),
      tag_index |-> TagIndexAdd(service.tag_index, document.tags, document.id),
      search_index |-> IF outcome = "ok"
                         THEN update_document(service.search_index, IndexFields(document))
                         ELSE service.search_index,
      last_updated |-> IF outcome = "writer_error" THEN service.last_updated
                       ELSE service.last_updated + 1,
      calls |-> Append(service.calls,
                       [op |-> "add", id |-> document.id,
                        stored |-> document.id \in DocKeys(service.documents)]),
      raised |-> Propagated(outcome) ]

\* remove_document(document_id) on the service.
ServiceRemove(service, document_id, outcome) ==
    LET found == DocsGet(service.documents, document_id) IN
    IF found = <<>>
      THEN [service EXCEPT
              !.calls = Append(@, [op |-> "remove", id |-> document_id, stored |-> FALSE]),
              !.raised = FALSE]
      ELSE [ documents |-> DocsDel(service.documents, document_id),
             path_index |-> DictDel(service.path_index, found[1].relative_path),
             tag_index |-> TagIndexDiscard(service.tag_index, found[1].tags, document_id),
             search_index |-> IF outcome = "ok"
                                THEN delete_by_term(service.search_index, document_id)
                                ELSE service.search_index,
             last_updated |-> IF outcome = "writer_error" THEN service.last_updated
                              ELSE service.last_updated + 1,
             calls |-> Append(service.calls,
                              [op |-> "remove", id |-> document_id, stored |-> TRUE]),
             raised |-> Propagated(outcome) ]

\* clear_all_documents() on the service.
ServiceClear(service, outcome) ==
    [ documents |-> <<>>, path_index |-> EmptyDict, tag_index |-> EmptyDict,
      search_index |-> IF outcome = "ok" THEN commit_optimize(service.search_index)
                       ELSE service.search_index,
      last_updated |-> IF outcome = "writer_error" THEN service.last_updated
                       ELSE service.last_updated + 1,
      calls |-> Append(service.calls, [op |-> "clear", id |-> "", stored |-> FALSE]),
      raised |-> Propagated(outcome) ]

\* An except clause around the call: the exception goes no further.
Caught(service) == [service EXCEPT !.raised = FALSE]

\* load_document(file_path, root_path) called for the file at a path.
ServiceLoad(service, path) ==
    [service EXCEPT
       !.calls = Append(@, [op |-> "load", id |-> _generate_document_id(path),
                            stored |-> FALSE])]

\* DocumentFileHandler.supported_extensions and initial_scan's own copy.
supported_extensions == {".md", ".txt", ".rst", ".markdown"}

\* FileWatcher.watch_patterns and exclude_patterns as __init__ sets them.
watch_patterns == <<"**/*.md", "**/*.txt", "**/*.rst", "**/*.markdown">>

exclude_patterns ==
    << "node_modules/**", "dist/**", ".git/**", "__pycache__/**",
       "venv/**", ".venv/**", "build/**", "coverage/**" >>

\* pattern[3:] of a pattern that starts with '**/'.
PatternSuffix(pattern) ==
    CASE pattern = "**/*.md" -> "*.md"
      [] pattern = "**/*.txt" -> "*.txt"
      [] pattern = "**/*.rst" -> "*.rst"
      [] pattern = "**/*.markdown" -> "*.markdown"
      [] OTHER -> pattern

\* fnmatch.fnmatch(path, pattern) on the paths of the model: '*' matches any
\* run of characters, '/' included, and every other character itself, so
\* '**/*.md' needs a '/' in the path.
fnmatch(path, pattern) ==
    CASE pattern = "node_modules/**" -> path = "node_modules/x.md"
      [] pattern = "**/*.md" -> path \in {"d/G.md", "node_modules/x.md"}
      [] OTHER -> FALSE

\* DocumentFileHandler._should_process_file: the extension is supported, no
\* exclude pattern matches the relative path, and a watch pattern matches it.
_should_process_file(path) ==
    /\ Suffix(path) \in supported_extensions
    /\ ~ \E i \in DOMAIN exclude_patterns : fnmatch(path, exclude_patterns[i])
    /\ \E i \in DOMAIN watch_patterns : fnmatch(path, watch_patterns[i])

\* rglob taken as a match of the whole relative path: a file in the root
\* itself is not found.
rglob_nested_only(pattern_suffix, path) ==
    pattern_suffix = "*.md" /\ path \in {"d/G.md", "node_modules/x.md"}

\* Whether root_path.rglob(pattern_suffix) yields the path when a file is
\* there: the name matches, in the root or in any directory below it.
rglob(pattern_suffix, path) ==
    pattern_suffix = "*.md" /\ path \in {"a.md", "d/G.md", "node_modules/x.md"}

\* The orders in which rglob may yield the files (the order of os.scandir).
ScanOrders ==
    { <<"a.md", "node_modules/x.md", "d/G.md", "n.py">>,
      <<"n.py", "d/G.md", "node_modules/x.md", "a.md">> }

\* How an index write ends for the callers of the store: committed, or
\* raised to them (what add_document catches itself looks the same to them
\* as a committed write).
CallerOutcomes == {"ok", "writer_error"}

\* How the index write of the add of each scanned file ends.
ScanOutcomes == [WatchedPaths -> CallerOutcomes]

\* The loop body without the check of the exclude patterns.
ScanFile_no_exclude(service, directory, path, outcome) ==
    IF directory[path] = <<>> THEN service
    ELSE IF Suffix(path) \notin supported_extensions THEN service
    ELSE IF ~Loads(directory[path][1]) THEN ServiceLoad(service, path)
    ELSE Caught(ServiceAdd(ServiceLoad(service, path),
                           load_document(path, directory[path][1]), outcome))

\* The loop body without the try around load_document and add_document.
ScanFile_no_try(service, directory, path, outcome) ==
    IF directory[path] = <<>> THEN service
    ELSE IF Suffix(path) \notin supported_extensions THEN service
    ELSE IF \E i \in DOMAIN exclude_patterns : fnmatch(path, exclude_patterns[i])
      THEN service
    ELSE IF ~Loads(directory[path][1]) THEN ServiceLoad(service, path)
    ELSE ServiceAdd(ServiceLoad(service, path),
                    load_document(path, directory[path][1]), outcome)

\* The body of initial_scan's loop for one file rglob yielded: is_file(), the
\* extension, the exclude patterns, then load_document and add_document in a
\* try of their own.
ScanFile(service, directory, path, outcome) ==
    IF directory[path] = <<>> THEN service
    ELSE IF Suffix(path) \notin supported_extensions THEN service
    ELSE IF \E i \in DOMAIN exclude_patterns : fnmatch(path, exclude_patterns[i])
      THEN service
    ELSE IF ~Loads(directory[path][1]) THEN ServiceLoad(service, path)
    ELSE Caught(ServiceAdd(ServiceLoad(service, path),
                           load_document(path, directory[path][1]), outcome))

\* The loop over the files of one pattern: an exception that leaves the loop
\* body ends the loop.
RECURSIVE ScanFiles(_, _, _, _)
ScanFiles(service, directory, paths, outcomes) ==
    IF paths = <<>> \/ service.raised THEN service
    ELSE ScanFiles(ScanFile(service, directory, Head(paths), outcomes[Head(paths)]),
                   directory, Tail(paths), outcomes)

\* initial_scan: for each watch pattern, the files rglob yields, in its
\* order; the try around each pattern catches what leaves its loop.
RECURSIVE initial_scan(_, _, _, _, _)
initial_scan(service, directory, patterns, order, outcomes) ==
    IF patterns = <<>> THEN service
    ELSE LET found == SelectSeq(order, LAMBDA p :
                        rglob(PatternSuffix(Head(patterns)), p))
         IN initial_scan(Caught(ScanFiles(service, directory, found, outcomes)),
                         directory, Tail(patterns), order, outcomes)

\* Number of last_updated bumps after which no caller of the store is started.
MaxCallerUpdates == 2

\* The store takes the fields of the service record.
Install(service) ==
    /\ documents' = service.documents
    /\ path_index' = service.path_index
    /\ tag_index' = service.tag_index
    /\ search_index' = service.search_index
    /\ last_updated' = service.last_updated

\* The record of a completed call of a caller of the store: the ids it
\* passed to add_document while they were stored, the ids of the files it
\* passed to load_document, whether it returned (did not raise), and whether
\* it ran initial_scan.
CallerDone(op, calls, returned, scanned) ==
    [ op |-> op,
      replaced |-> { calls[i].id : i \in { k \in DOMAIN calls :
                                             calls[k].op = "add" /\ calls[k].stored } },
      loaded |-> { calls[i].id : i \in { k \in DOMAIN calls : calls[k].op = "load" } },
      returned |-> returned, scanned |-> scanned ]

\* The index writes of the files the scan never adds are not drawn.
DrawnOutcomes ==
    { o \in ScanOutcomes : o["node_modules/x.md"] = "ok" /\ o["n.py"] = "ok" }

\* start() without the test of is_watching.
start_unguarded(order, outcomes, observer_ok) ==
    LET service == initial_scan(CurrentService, files, watch_patterns,
                                order, outcomes) IN
    /\ last_updated < MaxCallerUpdates
    /\ Install(service)
    /\ observer' = TRUE
    /\ is_watching' = (is_watching \/ observer_ok)
    /\ last' = CallerDone("start", service.calls,
                           ~service.raised /\ observer_ok, TRUE)
    /\ UNCHANGED <<files, prev,
                   event_queue, tasks, dispatched, socket_vars>>

\* FileWatcher.start(): returns at once when already watching; otherwise
\* awaits initial_scan, then creates, schedules and starts the Observer,
\* which may raise (the root is gone, no inotify watch is left).
start(order, outcomes, observer_ok) ==
    IF is_watching
      THEN /\ order \in ScanOrders /\ outcomes \in DrawnOutcomes /\ observer_ok
           /\ last' = CallerDone("start", <<>>, TRUE, FALSE)
           /\ UNCHANGED <<files, is_watching, observer, documents, path_index,
                          tag_index, search_index, last_updated, prev,
                   event_queue, tasks, dispatched, socket_vars>>
      ELSE LET service == initial_scan(CurrentService, files, watch_patterns,
                                       order, outcomes) IN
           /\ last_updated < MaxCallerUpdates
           /\ Install(service)
           /\ observer' = TRUE
           /\ is_watching' = observer_ok
           /\ last' = CallerDone("start", service.calls,
                                  ~service.raised /\ observer_ok, TRUE)
           /\ UNCHANGED <<files, prev,
                   event_queue, tasks, dispatched, socket_vars>>

\* The record of a completed stop(): whether it returned, and whether it
\* found an Observer to stop and join.
StopDone(returned, joined) ==
    [ op |-> "stop", replaced |-> {}, loaded |-> {}, returned |-> returned,
      scanned |-> FALSE, joined |-> joined ]

\* stop() without the test of self.observer: None has no stop().
stop_unguarded(join_ok) ==
    IF ~observer \/ (~is_watching /\ ~join_ok)
      THEN /\ last' = StopDone(FALSE, observer)
           /\ UNCHANGED <<files, is_watching, observer, documents, path_index,
                          tag_index, search_index, last_updated, prev,
                   event_queue, tasks, dispatched, socket_vars>>
      ELSE /\ observer' = FALSE
           /\ is_watching' = FALSE
           /\ last' = StopDone(TRUE, observer)
           /\ UNCHANGED <<files, documents, path_index, tag_index, search_index,
                          last_updated, prev,
                   event_queue, tasks, dispatched, socket_vars>>

\* FileWatcher.stop(): an Observer, if there is one, is stopped and joined
\* and the field set to None; then is_watching is cleared.  The Observer a
\* failed start() left behind may be a thread that was never started, whose
\* join() raises RuntimeError.
stop(join_ok) ==
    IF observer /\ ~is_watching /\ ~join_ok
      THEN /\ last' = StopDone(FALSE, observer)
           /\ UNCHANGED <<files, is_watching, observer, documents, path_index,
                          tag_index, search_index, last_updated, prev,
                   event_queue, tasks, dispatched, socket_vars>>
      ELSE /\ observer' = FALSE
           /\ is_watching' = FALSE
           /\ last' = StopDone(TRUE, observer)
           /\ UNCHANGED <<files, documents, path_index, tag_index, search_index,
                          last_updated, prev,
                   event_queue, tasks, dispatched, socket_vars>>

\* "Refresh All Documents" of streamlit_app.py: clear_all_documents(), then
\* initial_scan().
refresh_documents(order, outcomes, clear_outcome) ==
    LET cleared == ServiceClear(CurrentService, clear_outcome)
        service == IF cleared.raised THEN cleared
                   ELSE initial_scan(cleared, files, watch_patterns, order, outcomes)
    IN /\ last_updated < MaxCallerUpdates
       /\ Install(service)
       /\ last' = CallerDone("refresh", service.calls, ~service.raised, ~cleared.raised)
       /\ UNCHANGED <<files, is_watching, observer, prev,
                   event_queue, tasks, dispatched, socket_vars>>

\* The names a file is uploaded under.
UploadNames == {"a.md"}

\* The upload of streamlit_app.py and of cloud_server.py: the file is saved in
\* the directory, loaded and added; an exception is caught by the caller's try.
upload_document(name, file, outcome) ==
    LET loading == ServiceLoad(CurrentService, name)
        service == IF Loads(file)
                     THEN Caught(ServiceAdd(loading, load_document(name, file),
                                            outcome))
                     ELSE loading
    IN /\ last_updated < MaxCallerUpdates
       /\ files' = [files EXCEPT ![name] = <<file>>]
       /\ Install(service)
       /\ last' = CallerDone("upload", service.calls, TRUE, FALSE)
       /\ UNCHANGED <<is_watching, observer, prev,
                   event_queue, tasks, dispatched, socket_vars>>

\* "Reload Document" of streamlit_app.py for a stored document: the file is
\* loaded and, if that gave a document, the stored one is removed and the new
\* one added; an exception of the remove leaves the add undone.
reload_document(path, remove_outcome, add_outcome) ==
    LET selected_doc == get_document(path)
        loaded == files[path] # <<>> /\ Loads(files[path][1])
        loading == ServiceLoad(CurrentService, path)
        removed == ServiceRemove(loading, selected_doc[1].id, remove_outcome)
        service == IF ~loaded THEN loading
                   ELSE IF removed.raised THEN removed
                   ELSE ServiceAdd(removed, load_document(path, files[path][1]),
                                   add_outcome)
    IN /\ last_updated < MaxCallerUpdates
       /\ path \in WatchedPaths
       /\ selected_doc # <<>>
       /\ Install(service)
       /\ last' = CallerDone("reload", service.calls, ~service.raised, FALSE)
       /\ UNCHANGED <<files, is_watching, observer, prev,
                   event_queue, tasks, dispatched, socket_vars>>

\* Another process writes a file under the root, or deletes one.  While the
\* watcher runs, the Observer's thread calls on_created, on_modified or
\* on_deleted; asyncio.create_task raises there (that thread runs no event
\* loop), so no handler coroutine is started and the store is not touched.
write_file(path, file) ==
    /\ files[path] # <<file>>
    /\ files' = [files EXCEPT ![path] = <<file>>]
    /\ last' = CallerDone("write_file", <<>>, TRUE, FALSE)
    /\ UNCHANGED <<is_watching, observer, documents, path_index, tag_index,
                   search_index, last_updated, prev,
                   event_queue, tasks, dispatched, socket_vars>>

delete_file(path) ==
    /\ files[path] # <<>>
    /\ files' = [files EXCEPT ![path] = <<>>]
    /\ last' = CallerDone("delete_file", <<>>, TRUE, FALSE)
    /\ UNCHANGED <<is_watching, observer, documents, path_index, tag_index,
                   search_index, last_updated, prev,
                   event_queue, tasks, dispatched, socket_vars>>

InitWatcher ==
    /\ files \in Directories
    /\ is_watching = FALSE
    /\ observer = FALSE
    /\ event_queue = <<>>
    /\ tasks = <<>>
    /\ dispatched = <<>>
    /\ NoSockets
    /\ documents = <<>>
    /\ path_index = EmptyDict
    /\ tag_index = EmptyDict
    /\ search_index = <<>>
    /\ last_updated = 0
    /\ last = CallerDone("init", <<>>, TRUE, FALSE)
    /\ prev = <<>>

Start ==
    \E order \in ScanOrders, outcomes \in DrawnOutcomes, observer_ok \in BOOLEAN :
        start(order, outcomes, observer_ok)

Stop == \E join_ok \in BOOLEAN : stop(join_ok)

RefreshDocuments ==
    \E order \in ScanOrders, outcomes \in DrawnOutcomes, o \in CallerOutcomes :
        refresh_documents(order, outcomes, o)

UploadDocument ==
    \E name \in UploadNames, o \in CallerOutcomes :
        \E file \in VersionsAt(name) : upload_document(name, file, o)

ReloadDocument ==
    \E path \in WatchedPaths, r \in CallerOutcomes, a \in CallerOutcomes :
        reload_document(path, r, a)

WriteFile ==
    \E path \in ChangingPaths : \E file \in VersionsAt(path) : write_file(path, file)

DeleteFile == \E path \in ChangingPaths : delete_file(path)

NextWatcher ==
    \/ Start
    \/ Stop
    \/ RefreshDocuments
    \/ UploadDocument
    \/ ReloadDocument
    \/ WriteFile
    \/ DeleteFile

WatcherSpec == InitWatcher /\ [][NextWatcher]_vars

(***************************************************************************)
(* Properties of the callers of the store                                  *)
(***************************************************************************)

\* C19: update is always remove-then-add: no caller (start, the refresh, an
\* upload, a reload) passes to add_document an id that is stored at that
\* moment; a stored document's id is removed before its replacement is added.
C19_UpdateIsRemoveThenAdd ==
    last.op \in {"start", "refresh", "upload", "reload"} => last.replaced = {}

\* A watch pattern read as a glob: '**/' stands for no directory or for any
\* number of them.
GlobMatches(path, pattern) ==
    pattern = "**/*.md" /\ path \in {"a.md", "d/G.md", "node_modules/x.md"}

\* A file under the root with a supported extension that matches an include
\* pattern and no exclude pattern, and that load_document loads.
EligibleFile(path) ==
    /\ files[path] # <<>>
    /\ Suffix(path) \in supported_extensions
    /\ \E i \in DOMAIN watch_patterns : GlobMatches(path, watch_patterns[i])
    /\ ~ \E i \in DOMAIN exclude_patterns : fnmatch(path, exclude_patterns[i])
    /\ Loads(files[path][1])

\* Every eligible file is in the store as it is in the directory, and
\* get_document of its relative path returns it.
EligibleFilesStored ==
    \A path \in WatchedPaths :
        EligibleFile(path)
          => get_document(path) = <<load_document(path, files[path][1])>>

\* C20 as claimed: after FileWatcher.start() returns, every eligible file is
\* in the store and retrievable by its relative path.
C20_StartLoadsEligibleFiles ==
    (last.op = "start" /\ last.returned) => EligibleFilesStored

\* C20 as amended: after a FileWatcher.start() that found the watcher not
\* running returns, every eligible file is in the store and retrievable by
\* its relative path, files in the root directory included.
C20_StartScansEligibleFiles ==
    (last.op = "start" /\ last.returned /\ last.scanned) => EligibleFilesStored

\* C20 witness: start() has returned from a scan of a directory with a file
\* in the root, one in a directory and one in node_modules; the first two
\* are retrievable although the index write of each add raised.
C20_Witness ==
    /\ last.op = "start" /\ last.returned /\ last.scanned
    /\ is_watching
    /\ EligibleFile("a.md") /\ EligibleFile("d/G.md")
    /\ files["node_modules/x.md"] # <<>>
    /\ get_document("a.md") # <<>>
    /\ get_document("d/G.md") # <<>>
    /\ get_document("node_modules/x.md") = <<>>
    /\ Len(documents) = 2
    /\ search_index = <<>>

\* The files of the directory the watcher must leave alone: the extension is
\* not a supported one, or the relative path matches an exclude pattern.
Ineligible(path) ==
    \/ Suffix(path) \notin supported_extensions
    \/ \E i \in DOMAIN exclude_patterns : fnmatch(path, exclude_patterns[i])

\* C21: a scan (of start() or of the refresh) passes no file to load_document
\* or add_document whose extension is unsupported or whose relative path
\* matches an exclude pattern, although '*.md' finds the excluded file; and
\* the event handler's _should_process_file rejects every such file.
C21_ScanSkipsIneligible ==
    /\ (last.op \in {"start", "refresh"} /\ last.scanned)
         => \A path \in WatchedPaths :
               Ineligible(path)
                 => /\ _generate_document_id(path) \notin last.loaded
                    /\ _generate_document_id(path) \notin DocKeys(documents)
    /\ \A path \in WatchedPaths : Ineligible(path) => ~_should_process_file(path)

\* C21 witness: a scan of a directory that holds node_modules/x.md and n.py
\* has loaded the two eligible files.
C21_Witness ==
    /\ last.op = "start" /\ last.scanned
    /\ files["node_modules/x.md"] # <<>> /\ files["n.py"] # <<>>
    /\ rglob("*.md", "node_modules/x.md")
    /\ last.loaded = {_generate_document_id("a.md"), _generate_document_id("d/G.md")}

\* C22: initial_scan returns normally whatever happens to a file, and every
\* eligible file that loads is in the store afterwards, also when another
\* file failed to load or its add_document raised.
C22_ScanSurvivesFailures ==
    /\ (last.op = "refresh" /\ last.scanned)
         => (last.returned /\ EligibleFilesStored)
    /\ (last.op = "start" /\ last.scanned) => EligibleFilesStored

\* C22 witness: a refresh has scanned a directory in which a.md does not load
\* and d/G.md does; d/G.md, which the scan reached after a.md or before it,
\* is stored although the index write of its add raised.
C22_Witness ==
    /\ last.op = "refresh" /\ last.scanned /\ last.returned
    /\ files["a.md"] = <<Unloadable>>
    /\ _generate_document_id("a.md") \in last.loaded
    /\ get_document("a.md") = <<>>
    /\ EligibleFile("d/G.md")
    /\ get_document("d/G.md") # <<>>
    /\ _generate_document_id("d/G.md") \notin IndexIds(search_index)

\* C26: stop() on a watcher that holds no Observer (never started, or
\* stopped before) raises nothing, leaves observer None and is_watching
\* false, and touches neither the directory nor the store.
C26_StopIsIdempotent ==
    [][ (last'.op = "stop" /\ ~observer)
          => /\ last'.returned
             /\ observer' = FALSE
             /\ is_watching' = FALSE
             /\ UNCHANGED <<files, documents, path_index, tag_index,
                            search_index, last_updated>> ]_vars

\* C26 witness: stop() has returned on a watcher that held no Observer, after
\* an earlier start had filled the store.
C26_Witness ==
    /\ last.op = "stop" /\ last.returned /\ ~last.joined
    /\ ~observer /\ ~is_watching
    /\ documents # <<>>

(***************************************************************************)
(* Live watching.  The Observer started by start() runs a thread of its    *)
(* own: the emitter puts the events of the root on the Observer's queue    *)
(* and the thread calls on_created, on_modified or on_deleted for each.    *)
(* These ask asyncio for a task that runs the handler coroutine.           *)
(***************************************************************************)

\* Number of events the Observer's queue holds at most.
MaxEvents == 1

\* Number of handler coroutines that wait on the event loop at most.
MaxTasks == 2

\* Number of last_updated bumps after which no handler coroutine is run.
MaxHandlerUpdates == 4

\* DocumentService.documents, path_index, tag_index, search_index, last_updated
service_vars == <<documents, path_index, tag_index, search_index, last_updated>>

\* The paths whose events pass _should_process_file.
ProcessedPaths == { p \in WatchedPaths : _should_process_file(p) }

\* What a file written while the watcher runs may hold.
LiveVersions == FileVersions \cup {Unloadable}

\* A FileSystemEvent of a file: its event_type and src_path (relative here).
Event(type, path) == [type |-> type, path |-> path]

\* The service main.py holds when `await file_watcher.start()` has returned:
\* a new DocumentService after initial_scan, every index write committed.
StartedService(directory, order) ==
    initial_scan([ documents |-> <<>>, path_index |-> EmptyDict,
                   tag_index |-> EmptyDict, search_index |-> <<>>,
                   last_updated |-> 0, calls |-> <<>>, raised |-> FALSE ],
                 directory, watch_patterns, order,
                 [p \in WatchedPaths |-> "ok"])

\* asyncio.create_task(coroutine): the task joins those of the running loop
\* of the calling thread; a thread that runs no loop gets RuntimeError('no
\* running event loop').
create_task(running_loop, pending, coroutine) ==
    IF running_loop
      THEN [tasks |-> Append(pending, coroutine), raised |-> FALSE]
      ELSE [tasks |-> pending, raised |-> TRUE]

\* document_service.get_document(relative_path) on the service record.
ServiceGet(service, path) ==
    IF path \notin DOMAIN service.path_index THEN <<>>
    ELSE DocsGet(service.documents, service.path_index[path])

\* The except clause of a handler: the exception is logged and goes no
\* further.
Logged(service) ==
    IF service.raised
      THEN [service EXCEPT
              !.raised = FALSE,
              !.calls = Append(@, [op |-> "error", id |-> "", stored |-> FALSE])]
      ELSE service

\* load_document of the file at the path as the handler finds it: None when
\* there is no file (any more) or it does not load.
LoadedNow(directory, path) ==
    IF directory[path] # <<>> /\ Loads(directory[path][1])
      THEN <<load_document(path, directory[path][1])>>
      ELSE <<>>

\* _handle_file_created: load_document, then add_document if it gave one.
_handle_file_created(service, directory, path, add_outcome) ==
    LET loading == ServiceLoad(service, path)
        document == LoadedNow(directory, path)
    IN IF document = <<>> THEN loading
       ELSE Logged(ServiceAdd(loading, document[1], add_outcome))

\* _handle_file_modified without the remove of the existing document.
_handle_file_modified_add_only(service, directory, path, remove_outcome, add_outcome) ==
    _handle_file_created(service, directory, path, add_outcome)

\* _handle_file_modified that reloads first and removes the stored document
\* only when the reload gave one.
_handle_file_modified_load_first(service, directory, path, remove_outcome, add_outcome) ==
    LET loading == ServiceLoad(service, path)
        document == LoadedNow(directory, path)
        existing_doc == ServiceGet(service, path)
        removed == IF existing_doc # <<>>
                     THEN ServiceRemove(loading, existing_doc[1].id, remove_outcome)
                     ELSE loading
    IN IF document = <<>> THEN loading
       ELSE IF removed.raised THEN Logged(removed)
       ELSE Logged(ServiceAdd(removed, document[1], add_outcome))

\* _handle_file_modified: the document stored under the relative path, if
\* any, is removed; then load_document, and add_document if it gave one.
_handle_file_modified(service, directory, path, remove_outcome, add_outcome) ==
    LET existing_doc == ServiceGet(service, path)
        removed == IF existing_doc # <<>>
                     THEN ServiceRemove(service, existing_doc[1].id, remove_outcome)
                     ELSE service
    IN IF removed.raised THEN Logged(removed)
       ELSE _handle_file_created(removed, directory, path, add_outcome)

\* _handle_file_deleted: the document stored under the relative path, if any,
\* is removed.
_handle_file_deleted(service, path, remove_outcome) ==
    LET document == ServiceGet(service, path)
    IN IF document = <<>> THEN service
       ELSE Logged(ServiceRemove(service, document[1].id, remove_outcome))

\* Another process creates a file under the root while the Observer runs:
\* the emitter queues a FileCreatedEvent.
file_created(path, file) ==
    /\ is_watching
    /\ files[path] = <<>>
    /\ Len(event_queue) < MaxEvents
    /\ files' = [files EXCEPT ![path] = <<file>>]
    /\ event_queue' = Append(event_queue, Event("created", path))
    /\ UNCHANGED <<is_watching, observer, tasks, dispatched, socket_vars, last, prev>>
    /\ UNCHANGED service_vars

\* ... rewrites a file: a FileModifiedEvent.
file_modified(path, file) ==
    /\ is_watching
    /\ files[path] # <<>> /\ files[path] # <<file>>
    /\ Len(event_queue) < MaxEvents
    /\ files' = [files EXCEPT ![path] = <<file>>]
    /\ event_queue' = Append(event_queue, Event("modified", path))
    /\ UNCHANGED <<is_watching, observer, tasks, dispatched, socket_vars, last, prev>>
    /\ UNCHANGED service_vars

\* ... deletes a file: a FileDeletedEvent.
file_deleted(path) ==
    /\ is_watching
    /\ files[path] # <<>>
    /\ Len(event_queue) < MaxEvents
    /\ files' = [files EXCEPT ![path] = <<>>]
    /\ event_queue' = Append(event_queue, Event("deleted", path))
    /\ UNCHANGED <<is_watching, observer, tasks, dispatched, socket_vars, last, prev>>
    /\ UNCHANGED service_vars

\* ... renames a file to a name with an unsupported extension: the
\* FileMovedEvent goes to on_moved, which DocumentFileHandler does not
\* define, so that nothing is asked of the loop.
file_moved(path) ==
    /\ is_watching
    /\ files[path] # <<>>
    /\ files' = [files EXCEPT ![path] = <<>>]
    /\ UNCHANGED <<is_watching, observer, event_queue, tasks, dispatched, socket_vars,
                   last, prev>>
    /\ UNCHANGED service_vars

\* The Observer's thread takes the next event and calls on_created,
\* on_modified or on_deleted: nothing for a file _should_process_file
\* rejects, otherwise asyncio.create_task for the handler coroutine.
\* running_loop tells whether the calling thread runs an event loop.
on_event(running_loop) ==
    /\ event_queue # <<>>
    /\ LET event == Head(event_queue)
           process == _should_process_file(event.path)
           asked == create_task(running_loop, tasks, event)
       IN /\ (process /\ running_loop) => Len(tasks) < MaxTasks
          /\ event_queue' = Tail(event_queue)
          /\ tasks' = IF process THEN asked.tasks ELSE tasks
          /\ dispatched' = << [ type |-> event.type, path |-> event.path,
                                processed |-> process,
                                scheduled |-> process /\ ~asked.raised ] >>
    /\ UNCHANGED <<files, is_watching, observer, last, prev>>
    /\ UNCHANGED socket_vars
    /\ UNCHANGED service_vars

\* The record of a handler coroutine that ran: the event, the document that
\* was stored under the path before it and the one load_document gave, the
\* calls it made on the service, whether its except clause logged an
\* exception, whether the task behind it on the loop is for the same path,
\* and the handler that ran right before it if this one's task was waiting
\* on the loop along with that one's.
HandlerDone(task, old, new, service, behind, before) ==
    [ op |-> task.type, path |-> task.path, old |-> old, new |-> new,
      calls |-> service.calls,
      failed |-> \E i \in DOMAIN service.calls : service.calls[i].op = "error",
      behind |-> behind # <<>> /\ Head(behind).path = task.path,
      after |-> IF /\ before.op \in {"created", "modified", "deleted"}
                   /\ before.behind
                  THEN <<before.op>> ELSE <<>> ]

\* The event loop runs the handler coroutine that waits longest.  The
\* handlers await nothing, so each runs from its first line to its last
\* before the loop runs anything else.
run_task(remove_outcome, add_outcome) ==
    /\ tasks # <<>>
    /\ last_updated < MaxHandlerUpdates
    /\ LET task == Head(tasks)
           service ==
             CASE task.type = "created" ->
                    _handle_file_created(CurrentService, files, task.path, add_outcome)
               [] task.type = "modified" ->
                    _handle_file_modified(CurrentService, files, task.path,
                                          remove_outcome, add_outcome)
               [] task.type = "deleted" ->
                    _handle_file_deleted(CurrentService, task.path, remove_outcome)
       IN /\ Install(service)
          /\ tasks' = Tail(tasks)
          /\ last' = HandlerDone(task, get_document(task.path),
                                 IF task.type = "deleted" THEN <<>>
                                 ELSE LoadedNow(files, task.path),
                                 service, Tail(tasks), last)
    /\ UNCHANGED <<files, is_watching, observer, event_queue, dispatched, socket_vars, prev>>

\* main.py after `await file_watcher.start()` on one of the directories: the
\* watcher runs.
InitLiveOn(directories, orders) ==
    \E directory \in directories, order \in orders :
        LET service == StartedService(directory, order) IN
        /\ files = directory
        /\ is_watching = TRUE
        /\ observer = TRUE
        /\ event_queue = <<>>
        /\ tasks = <<>>
        /\ dispatched = <<>>
        /\ NoSockets
        /\ documents = service.documents
        /\ path_index = service.path_index
        /\ tag_index = service.tag_index
        /\ search_index = service.search_index
        /\ last_updated = service.last_updated
        /\ last = CallerDone("start", service.calls, TRUE, TRUE)
        /\ prev = <<>>

InitLive == InitLiveOn(Directories, ScanOrders)

FileCreated ==
    \E path \in ChangingPaths, file \in LiveVersions : file_created(path, file)

FileModified ==
    \E path \in ChangingPaths, file \in LiveVersions : file_modified(path, file)

FileDeleted == \E path \in ChangingPaths : file_deleted(path)

FileMoved == \E path \in ChangingPaths : file_moved(path)

\* The Observer's thread of the program: it runs no event loop.
Dispatch == on_event(FALSE)

NextEvent ==
    \/ FileCreated
    \/ FileModified
    \/ FileDeleted
    \/ FileMoved
    \/ Dispatch

\* The Observer dispatches every event it has queued.
EventSpec == InitLive /\ [][NextEvent]_vars /\ WF_vars(Dispatch)

\* A created event for the path has been dispatched while the watcher runs
\* and the file is eligible and loads.
CreatedDelivered(path) ==
    /\ is_watching
    /\ dispatched # <<>>
    /\ dispatched[1].type = "created" /\ dispatched[1].path = path
    /\ EligibleFile(path)

\* C23: while the watcher runs, after a create notification for an eligible,
\* loadable file was dispatched, the document is eventually in the store and
\* get_document(relative path) returns it (unless the file is gone or
\* unloadable by then).
C23_CreatedFileIsAdded ==
    \A path \in ChangingPaths :
        CreatedDelivered(path)
          ~> (\/ ~EligibleFile(path)
              \/ get_document(path) = <<load_document(path, files[path][1])>>)

(***************************************************************************)
(* The handler coroutines as tasks of the event loop: what on_created,     *)
(* on_modified and on_deleted ask asyncio for, given to them here.         *)
(***************************************************************************)

\* The directories the handlers start from: a.md is there and stays.
HandlerDirectories ==
    { d \in Directories : d["a.md"] # <<>> /\ d["a.md"][1].mtime = 1 }

\* rglob yields a.md before d/G.md.
HandlerScanOrders == { o \in ScanOrders : o[1] = "a.md" }

InitHandler == InitLiveOn(HandlerDirectories, HandlerScanOrders)

\* The files change one at a time here: the Observer has dispatched the event
\* of a change when the next file changes.
ProcessedFileCreated ==
    /\ event_queue = <<>>
    /\ \E path \in ProcessedPaths, file \in LiveVersions : file_created(path, file)

ProcessedFileModified ==
    /\ event_queue = <<>>
    /\ \E path \in ProcessedPaths, file \in LiveVersions : file_modified(path, file)

ProcessedFileDeleted ==
    /\ event_queue = <<>>
    /\ \E path \in ProcessedPaths : file_deleted(path)

ProcessedFileMoved == \E path \in ProcessedPaths : file_moved(path)

\* on_created, on_modified or on_deleted called where a loop runs.
DispatchOnLoop == on_event(TRUE)

\* The index write of a handler's remove_document commits or raises; that of
\* its add_document commits (the writes of an add that fail are explored
\* with the store and with the scan).
RunTask ==
    \E remove_outcome \in CallerOutcomes, add_outcome \in {"ok"} :
        run_task(remove_outcome, add_outcome)

NextHandler ==
    \/ ProcessedFileCreated
    \/ ProcessedFileModified
    \/ ProcessedFileDeleted
    \/ ProcessedFileMoved
    \/ DispatchOnLoop
    \/ RunTask

HandlerSpec == InitHandler /\ [][NextHandler]_vars

(***************************************************************************)
(* Properties of the event handlers                                        *)
(***************************************************************************)

Handlers == {"created", "modified", "deleted"}

\* The documents stored under a relative path.
StoredAt(path) == { i \in DOMAIN documents : documents[i].relative_path = path }

\* C24: a modify handler that finds the path stored calls remove_document
\* for the stored id first and load_document and add_document after it; when
\* it has reloaded the file, exactly one document is stored for the path, it
\* is the reloaded one, and the id is in no tag-set of a tag that the
\* replaced version carried and the reloaded one does not.
C24_ModifyIsRemoveThenAdd ==
    (last.op = "modified" /\ last.old # <<>> /\ last.new # <<>> /\ ~last.failed)
      => LET id == last.old[1].id IN
         /\ last.calls = << [op |-> "remove", id |-> id, stored |-> TRUE],
                            [op |-> "load", id |-> id, stored |-> FALSE],
                            [op |-> "add", id |-> id, stored |-> FALSE] >>
         /\ Cardinality(StoredAt(last.path)) = 1
         /\ get_document(last.path) = last.new
         /\ \A t \in Range(last.old[1].tags) \ Range(last.new[1].tags) :
               t \notin DOMAIN tag_index \/ id \notin tag_index[t]

\* C24 witness: a modify handler has replaced the stored document of d/G.md
\* by a reloaded one with other tags, next to the document of a.md.
C24_Witness ==
    /\ last.op = "modified" /\ last.old # <<>> /\ last.new # <<>> /\ ~last.failed
    /\ Range(last.old[1].tags) # Range(last.new[1].tags)
    /\ get_document(last.path) = last.new
    /\ Len(documents) = 2

\* C25: after a delete handler for a path that was stored, get_document of
\* the path is None and the id is in none of documents, path_index, tag_index
\* and the index; a delete handler for a path that is not stored makes no
\* call that changes the service.
C25_DeleteRemovesEverywhere ==
    (last.op = "deleted")
      => IF last.old # <<>>
           THEN LET id == last.old[1].id IN
                /\ get_document(last.path) = <<>>
                /\ id \notin DocKeys(documents)
                /\ \A p \in DOMAIN path_index : path_index[p] # id
                /\ \A t \in DOMAIN tag_index : id \notin tag_index[t]
                /\ id \notin IndexIds(search_index)
           ELSE last.calls = <<>>

InDocuments(id) == id \in DocKeys(documents)

InPathIndex(id) == \E p \in DOMAIN path_index : path_index[p] = id

InTagIndex(id) == \E t \in DOMAIN tag_index : id \in tag_index[t]

InSearchIndex(id) == id \in IndexIds(search_index)

\* Every tag of the stored document of the id leads to it.
UnderItsTags(id) ==
    \A k \in DOMAIN documents :
       documents[k].id = id
         => \A t \in Range(documents[k].tags) :
               t \in DOMAIN tag_index /\ id \in tag_index[t]

\* C28: in every state a reader can run in, a document is in all of
\* documents, path_index, tag_index (under each of its tags) and the
\* Full-Text Index, or in none of them.
C28_NoPartialDocument ==
    \A id \in DocumentIds :
       /\ InDocuments(id) <=> InPathIndex(id)
       /\ InDocuments(id) <=> InSearchIndex(id)
       /\ InTagIndex(id) => InDocuments(id)
       /\ InDocuments(id) => UnderItsTags(id)

(***************************************************************************)
(* get_tags                                                                *)
(***************************************************************************)

\* The rank of a tag in string order.
TagOrd(tag) ==
    CASE tag = "api" -> 1
      [] tag = "rest" -> 2
      [] tag = "ui" -> 3
      [] OTHER -> 0

\* sorted(keys)
RECURSIVE SortedTags(_)
SortedTags(keys) ==
    IF keys = {} THEN <<>>
    ELSE LET first == CHOOSE t \in keys : \A u \in keys : TagOrd(t) <= TagOrd(u)
         IN <<first>> \o SortedTags(keys \ {first})

\* return sorted(self.tag_index.keys())
get_all_tags == SortedTags(DOMAIN tag_index)

\* [self.documents[doc_id] for doc_id in self.tag_index.get(tag, set())
\*  if doc_id in self.documents]
get_documents_by_tag(tag) ==
    { DocsGet(documents, doc_id)[1] :
        doc_id \in { i \in DictGet(tag_index, tag, {}) : i \in DocKeys(documents) } }

\* The text of the tool's result: a heading and one line per tag,
\* "- **{tag}** ({count} document{s})".
handle_get_tags ==
    LET tags == get_all_tags IN
    IF tags = <<>>
      THEN [text |-> "No tags found in the documentation.", tag_list |-> <<>>]
      ELSE [text |-> "Available tags:",
            tag_list |->
              [i \in DOMAIN tags |->
                 LET docs == get_documents_by_tag(tags[i])
                 IN [tag |-> tags[i],
                     count |-> Cardinality(docs),
                     plural |-> Cardinality(docs) # 1]]]

\* The stored documents whose tags contain the tag.
Carriers(tag) == { k \in DOMAIN documents : tag \in Range(documents[k].tags) }

\* The tags are listed in ascending order, each once.
TagsAscending ==
    LET tag_list == handle_get_tags.tag_list
    IN \A i, j \in DOMAIN tag_list :
          i < j => TagOrd(tag_list[i].tag) < TagOrd(tag_list[j].tag)

\* Every tag of a stored document is listed.
CarriedTagsListed ==
    LET tag_list == handle_get_tags.tag_list
    IN \A t \in Tags :
          Carriers(t) # {} => \E i \in DOMAIN tag_list : tag_list[i].tag = t

\* C30: after any sequence of add_document and remove_document, get_tags
\* lists the tags in ascending order, each once; the count of a tag is the
\* number of stored documents whose tags contain it; and no tag that no stored
\* document carries is listed.
C30_GetTagsCountsStored ==
    LET tag_list == handle_get_tags.tag_list
    IN /\ TagsAscending
       /\ CarriedTagsListed
       /\ \A i \in DOMAIN tag_list :
             /\ tag_list[i].count = Cardinality(Carriers(tag_list[i].tag))
             /\ Carriers(tag_list[i].tag) # {}

(***************************************************************************)
(* A query whoosh fails on                                                 *)
(***************************************************************************)

\* C29: when the query text cannot be parsed or the index query fails,
\* search_documents returns an empty list and raises nothing to its caller.
C29_QueryFailureGivesNoResults ==
    last.op = "search_failed" => (~last.raised /\ last.results = <<>>)

\* The tool's caller gets the no-match text for such a query.
QueryFailureReadsAsNoMatch ==
    last.op = "search_failed"
      => last.text = "No documents found matching your search criteria."

(***************************************************************************)
(* _find_matches on its own                                                *)
(***************************************************************************)

\* The longest content, in lines.
MaxLines == 6

\* The lines of the contents: a plain one, one that starts with blanks and
\* holds the word twice in two cases, and one without the word.
MatchLines ==
    { <<"guide">>, <<" ", "Guide", "guide">>, <<"user">> }

\* The query texts.
MatchQueries == { <<"guide">>, <<"Guide">>, <<"user">> }

\* '\n'.join(lines), as the words of a content.
RECURSIVE JoinLines(_)
JoinLines(lines) ==
    IF lines = <<>> THEN <<>>
    ELSE IF Len(lines) = 1 THEN lines[1]
    ELSE Head(lines) \o <<"\n">> \o JoinLines(Tail(lines))

\* The contents: one to MaxLines lines.
MatchContents ==
    UNION { { JoinLines(lines) : lines \in [1..n -> MatchLines] } : n \in 1..MaxLines }

\* A caller holds a document and a query text.
InitMatch ==
    /\ files = EmptyDirectory
    /\ is_watching = FALSE
    /\ observer = FALSE
    /\ event_queue = <<>>
    /\ tasks = <<>>
    /\ dispatched = <<>>
    /\ NoSockets
    /\ documents = <<>>
    /\ path_index = EmptyDict
    /\ tag_index = EmptyDict
    /\ search_index = <<>>
    /\ last_updated = 0
    /\ \E content \in MatchContents, query \in MatchQueries :
          last = [op |-> "match_input", content |-> content, query |-> query,
                  matches |-> <<>>]
    /\ prev = <<>>

\* self._find_matches(document, query_text), its return value kept in last.
FindMatches ==
    /\ last.op = "match_input"
    /\ last' = [last EXCEPT !.op = "find_matches",
                            !.matches = _find_matches([content |-> last.content],
                                                      last.query)]
    /\ UNCHANGED <<documents, path_index, tag_index, search_index,
                   last_updated, prev>>
    /\ UNCHANGED watcher_vars

NextMatch == FindMatches

MatchSpec == InitMatch /\ [][NextMatch]_vars

\* The characters of the lines of a content.
LineTexts(content) ==
    LET lines == SplitLines(content, <<>>)
    IN [n \in DOMAIN lines |-> Text(lines[n])]

\* The line holds the query text when case is ignored.
LineHolds(line_text, query) == SubstringIgnoringCase(Text(query), line_text)

\* C32: _find_matches returns at most 5 matches, with strictly increasing
\* 1-based line numbers (so at most one per line), each at the first
\* occurrence of the query in its line, and they are the first matching lines
\* from the top: a matching line is left out only after 5 matches above it.
C32_MatchesAreFirstFiveLines ==
    last.op = "find_matches" =>
      LET matches == last.matches
          texts == LineTexts(last.content)
          needle == LowerSeq(Text(last.query))
      IN /\ Len(matches) <= 5
         /\ \A i, j \in DOMAIN matches : i < j => matches[i].line < matches[j].line
         /\ \A i \in DOMAIN matches :
               /\ matches[i].line \in DOMAIN texts
               /\ LineHolds(texts[matches[i].line], last.query)
               /\ \A k \in 0..(matches[i].start_index - 1) :
                     SubSeq(LowerSeq(texts[matches[i].line]), k + 1, k + Len(needle))
                       # needle
         /\ \A n \in DOMAIN texts :
               LineHolds(texts[n], last.query)
                 => \/ \E i \in DOMAIN matches : matches[i].line = n
                    \/ /\ Len(matches) = 5
                       /\ \A i \in DOMAIN matches : matches[i].line < n

\* C32 witness: the scan stopped at the fifth match with a matching line left
\* below, and one of the matched lines holds the query twice.
C32_Witness ==
    /\ last.op = "find_matches"
    /\ Len(last.matches) = 5
    /\ \E n \in DOMAIN LineTexts(last.content) :
          /\ LineHolds(LineTexts(last.content)[n], last.query)
          /\ \A i \in DOMAIN last.matches : last.matches[i].line < n
    /\ \E i \in DOMAIN last.matches : last.matches[i].start_index > 0

\* C33: the offsets of every match locate the occurrence in the match's own
\* text: text[start_index:end_index] is the query when case is ignored, also
\* for lines that start with blanks.
C33_OffsetsLocateQuery ==
    last.op = "find_matches" =>
      \A i \in DOMAIN last.matches :
         LowerSeq(PySlice(last.matches[i].text, last.matches[i].start_index,
                          last.matches[i].end_index))
           = LowerSeq(Text(last.query))

\* The offsets locate the occurrence in the line as it is in the content.
OffsetsLocateQueryInLine ==
    last.op = "find_matches" =>
      \A i \in DOMAIN last.matches :
         LowerSeq(PySlice(LineTexts(last.content)[last.matches[i].line],
                          last.matches[i].start_index, last.matches[i].end_index))
           = LowerSeq(Text(last.query))

(***************************************************************************)
(* get_all_documents                                                       *)
(***************************************************************************)

\* The largest limit a caller passes.
MaxAllLimit == 4

\* get_all_documents(limit); the limit is <<>> for None and <<n>> for n.
\* documents[:limit] if limit else documents: None and 0 are both falsy.
get_all_documents(limit) ==
    LET all == documents
    IN IF limit # <<>> /\ limit[1] # 0 THEN PySlice(all, 0, limit[1]) ELSE all

\* C34: for every limit >= 0, 0 included, get_all_documents(limit) returns the
\* first min(limit, n) stored documents in insertion order, never more than
\* limit of them, and all n without a limit.
C34_GetAllHonoursLimit ==
    /\ get_all_documents(<<>>) = documents
    /\ \A limit \in 0..MaxAllLimit :
          /\ get_all_documents(<<limit>>)
               = SubSeq(documents, 1, Min(limit, Len(documents)))
          /\ Len(get_all_documents(<<limit>>)) <= limit

\* The same for the limits from 1.
GetAllHonoursPositiveLimit ==
    /\ get_all_documents(<<>>) = documents
    /\ \A limit \in 1..MaxAllLimit :
          get_all_documents(<<limit>>)
            = SubSeq(documents, 1, Min(limit, Len(documents)))

(***************************************************************************)
(* A modify handler whose reload fails                                     *)
(***************************************************************************)

\* The handler reached load_document and it gave a document.
Reloaded ==
    /\ \E i \in DOMAIN last.calls : last.calls[i].op = "load"
    /\ last.new # <<>>

\* C35: after a modify handler the store holds a document for the path if
\* and only if the reload inside the handler succeeded, and then it is the
\* reloaded one; when the reload fails the version stored before has been
\* removed and is not restored.
C35_ModifyStoresIffReloaded ==
    last.op = "modified"
      => /\ get_document(last.path) # <<>> <=> Reloaded
         /\ Reloaded => get_document(last.path) = last.new
         /\ ~Reloaded => /\ StoredAt(last.path) = {}
                         /\ last.path \notin DOMAIN path_index

\* C35 witness: the path was stored, the file no longer loads when the
\* handler reloads it, and no document is stored for the path afterwards.
C35_Witness ==
    /\ last.op = "modified"
    /\ last.old # <<>>
    /\ \E i \in DOMAIN last.calls : last.calls[i].op = "load"
    /\ last.new = <<>>
    /\ get_document(last.path) = <<>>

(***************************************************************************)
(* The event filter against the scan                                       *)
(***************************************************************************)

\* The scan handed the file at the path to load_document.
ScanIndexes(path) == _generate_document_id(path) \in last.loaded

\* C36: for the same patterns the event filter agrees with the scan:
\* _should_process_file accepts the path of a file if and only if the scan
\* indexes the file, files directly in the root included.
C36_FilterAgreesWithScan ==
    (last.op \in {"start", "refresh"} /\ last.scanned)
      => \A path \in WatchedPaths :
            files[path] # <<>> => (_should_process_file(path) <=> ScanIndexes(path))

\* The two agree on every file that is not directly in the root, and the
\* filter accepts no file the scan leaves out.
FilterAgreesBelowRoot ==
    (last.op \in {"start", "refresh"} /\ last.scanned)
      => \A path \in WatchedPaths :
            files[path] # <<>>
              => /\ _should_process_file(path) => ScanIndexes(path)
                 /\ path # "a.md" => (ScanIndexes(path) => _should_process_file(path))

(***************************************************************************)
(* The store after a scan of a store that was not empty                    *)
(***************************************************************************)

\* Every stored document is the document of an eligible file that exists
\* under the root.
StoredAreEligibleFiles ==
    \A i \in DOMAIN documents :
       /\ documents[i].relative_path \in WatchedPaths
       /\ EligibleFile(documents[i].relative_path)

\* C37: after FileWatcher.start() has scanned, every document in the store
\* corresponds to an eligible file that exists under the root, also when the
\* store was not empty before: documents of files deleted while the watcher
\* was stopped do not remain.
C37_ScanLeavesNoDeletedFile ==
    (last.op = "start" /\ last.scanned) => StoredAreEligibleFiles

(***************************************************************************)
(* The Observer of a watcher through start() and stop()                    *)
(***************************************************************************)

\* C38: through any sequence of start() and stop(), is_watching is true only
\* if the watcher holds an Observer, and an Observer is created only by a
\* start() that found the watcher not running: start() on a running watcher
\* does not rescan, creates no second Observer and leaves the store alone.
C38_OneObserver ==
    /\ [](is_watching => observer)
    /\ [][ /\ (last'.op = "start" /\ is_watching)
              => /\ ~last'.scanned
                 /\ last'.loaded = {}
                 /\ last'.returned
                 /\ UNCHANGED <<observer, is_watching, files, documents,
                                path_index, tag_index, search_index, last_updated>>
           /\ (observer' /\ ~observer) => (last'.op = "start" /\ ~is_watching) ]_vars

\* C38 witness: start() has returned on a watcher that was running, after
\* the first start had filled the store.
C38_Witness ==
    /\ last.op = "start" /\ ~last.scanned /\ last.returned
    /\ is_watching /\ observer
    /\ documents # <<>>

(***************************************************************************)
(* MCPServer.handle_request and the five tools                             *)
(***************************************************************************)

\* MCPServer.tools: the names of the declared tools.
tools ==
    << "search_docs", "get_document", "list_documents", "get_tags",
       "get_statistics" >>

\* MCPResponse(id=..., result=..., error=...); None is <<>>.
MCPResponse_no_id(id, result, error) ==
    [ jsonrpc |-> "2.0", id |-> <<>>, result |-> result, error |-> error ]

MCPResponse(id, result, error) ==
    [ jsonrpc |-> "2.0", id |-> id, result |-> result, error |-> error ]

\* MCPToolResult(content=[{"type": "text", "text": text}]).dict()
MCPToolResult(text) == [ content |-> << [type |-> "text", text |-> text] >> ]

\* The arguments of a tool call: a key that is not given is <<>> or "".
ToolArguments ==
    [ query : {<<>>, <<"guide">>},
      tags : {<<>>, <<"api">>},
      path : {"", "a.md", "missing.md"},
      limit : {<<>>, <<0>>, <<1>>} ]

\* The params of a request: None, or a dict with some of the keys "name" and
\* "arguments"; the arguments are a dict or null.
ToolNames == Range(tools) \cup {"delete_docs"}

RequestParams ==
    {<<>>}
      \cup { << [keys |-> {}, name |-> "", arguments |-> <<>>] >> }
      \cup { << [keys |-> {"arguments"}, name |-> "", arguments |-> <<a>>] >> :
               a \in { [query |-> <<>>, tags |-> <<>>, path |-> "", limit |-> <<>>] } }
      \cup { << [keys |-> {"name", "arguments"}, name |-> n, arguments |-> a] >> :
               n \in ToolNames, a \in {<<>>} \cup { <<r>> : r \in ToolArguments } }

\* MCPRequest(id=..., method=..., params=...)
MCPRequests ==
    [ id : {<<>>, <<7>>},
      method : {"tools/list", "tools/call", "resources/list"},
      params : RequestParams ]

\* A method of DocumentService called on the service.  search_documents,
\* get_document, get_all_documents, get_documents_by_tag, get_all_tags and
\* get_statistics assign no attribute of the service.
ServiceCall(service, method) ==
    IF method = "clear_all_documents" THEN ServiceClear(service, "ok")
    ELSE [service EXCEPT
            !.calls = Append(@, [op |-> method, id |-> "", stored |-> FALSE])]

RECURSIVE ServiceCalls(_, _)
ServiceCalls(service, methods) ==
    IF methods = <<>> THEN service
    ELSE ServiceCalls(ServiceCall(service, Head(methods)), Tail(methods))

\* handle_search_docs(args): args.get raises on null arguments, inside the
\* try of the handler, which answers with the error text.
search_docs(tool_args, outcome) ==
    IF tool_args = <<>>
      THEN [text |-> "Error searching documents: ...", calls |-> <<>>]
      ELSE LET args == tool_args[1]
               query == [ContextQuery EXCEPT
                           !.query = args.query,
                           !.tags = args.tags,
                           !.path = PathChars(args.path),
                           !.limit = IF args.limit = <<>> THEN 10 ELSE args.limit[1]]
           IN [text |-> handle_search_docs(search_documents_with(query, outcome)),
               calls |-> <<"search_documents">>]

\* handle_get_document(args)
handle_get_document(tool_args) ==
    IF tool_args = <<>>
      THEN [text |-> "Error retrieving document: ...", calls |-> <<>>]
    ELSE IF tool_args[1].path = ""
      THEN [text |-> "Error: path parameter is required", calls |-> <<>>]
    ELSE IF get_document(tool_args[1].path) = <<>>
      THEN [text |-> "Document not found: {path}", calls |-> <<"get_document">>]
    ELSE [text |-> "# {title} ...", calls |-> <<"get_document">>]

\* handle_list_documents(args): every document, those with one of the tags
\* when tags are given, cut to documents[:limit].
handle_list_documents(tool_args) ==
    IF tool_args = <<>>
      THEN [text |-> "Error listing documents: ...", calls |-> <<>>, listed |-> <<>>]
      ELSE LET args == tool_args[1]
               limit == IF args.limit = <<>> THEN 50 ELSE args.limit[1]
               all == get_all_documents(<<>>)
               tagged == IF args.tags # <<>>
                           THEN SelectSeq(all, LAMBDA doc :
                                  \E i \in DOMAIN args.tags :
                                     args.tags[i] \in Range(doc.tags))
                           ELSE all
               listed == PySlice(tagged, 0, limit)
           IN [text |-> IF listed = <<>> THEN "No documents found."
                        ELSE "Found n document(s): ...",
               calls |-> <<"get_all_documents">>,
               listed |-> listed]

\* handle_get_tags()
get_tags ==
    [text |-> handle_get_tags.text,
     calls |-> <<"get_all_tags">>
                 \o [i \in DOMAIN get_all_tags |-> "get_documents_by_tag"]]

\* handle_get_statistics() with a second call that clears the store.
handle_get_statistics_clearing ==
    [text |-> "# Documentation Statistics ...",
     calls |-> <<"get_statistics", "clear_all_documents">>,
     total_files |-> total_files(documents)]

\* handle_get_statistics()
handle_get_statistics ==
    [text |-> "# Documentation Statistics ...",
     calls |-> <<"get_statistics">>,
     total_files |-> total_files(documents)]

\* MCPServer.handle_request(request): the response, and the calls made on the
\* document service.  Whatever is raised inside the try becomes an error
\* response.
handle_request(request, outcome) ==
    LET Answer(result, calls) ==
          [response |-> MCPResponse(request.id, <<result>>, <<>>), calls |-> calls]
        Error(message) ==
          [response |-> MCPResponse(request.id, <<>>,
                                    <<[code |-> -32603, message |-> message]>>),
           calls |-> <<>>]
        Tool(handled) == Answer(MCPToolResult(handled.text), handled.calls)
    IN IF request.method = "tools/list" THEN Answer([tools |-> tools], <<>>)
       ELSE IF request.method = "tools/call"
         THEN IF request.params = <<>> \/ request.params[1].keys = {}
                THEN Error("Missing parameters for tool call")
                ELSE LET params == request.params[1]
                         tool_name == IF "name" \in params.keys
                                        THEN params.name ELSE "None"
                         tool_args == params.arguments
                     IN CASE tool_name = "search_docs" ->
                               Tool(search_docs(tool_args, outcome))
                          [] tool_name = "get_document" ->
                               Tool(handle_get_document(tool_args))
                          [] tool_name = "list_documents" ->
                               Tool(handle_list_documents(tool_args))
                          [] tool_name = "get_tags" -> Tool(get_tags)
                          [] tool_name = "get_statistics" ->
                               Tool(handle_get_statistics)
                          [] OTHER -> Error("Unknown tool: {tool_name}")
       ELSE Error("Unknown method: {method}")

\* The stores the requests are served from.
RequestStores == { SubSeq(SearchLibrary, 1, n) : n \in {0, 2, 3} }

\* A client holds a request for a server whose service holds some store.
InitRequest ==
    \E docs \in RequestStores, request \in MCPRequests :
        LET service == AddAll(NewService, docs) IN
        /\ files = EmptyDirectory
        /\ is_watching = FALSE
        /\ observer = FALSE
        /\ event_queue = <<>>
        /\ tasks = <<>>
        /\ dispatched = <<>>
        /\ NoSockets
        /\ documents = service.documents
        /\ path_index = service.path_index
        /\ tag_index = service.tag_index
        /\ search_index = service.search_index
        /\ last_updated = Len(docs)
        /\ last = [op |-> "request", request |-> request,
                   response |-> <<>>, calls |-> <<>>]
        /\ prev = <<>>

\* await mcp_server.handle_request(request), the response kept in last.
HandleRequest ==
    \E outcome \in {"ok", "search_error"} :
        LET handled == handle_request(last.request, outcome)
            service == ServiceCalls(CurrentService, handled.calls)
        IN /\ last.op = "request"
           /\ Install(service)
           /\ last' = [op |-> "response", request |-> last.request,
                       response |-> <<handled.response>>,
                       calls |-> handled.calls]
           /\ UNCHANGED prev
           /\ UNCHANGED watcher_vars

NextRequest == HandleRequest

RequestSpec == InitRequest /\ [][NextRequest]_vars

\* The request is a tools/call of one of the declared tools.
CallsTool(request) ==
    /\ request.method = "tools/call"
    /\ request.params # <<>>
    /\ "name" \in request.params[1].keys
    /\ request.params[1].name \in Range(tools)

\* C31: handle_request returns one response with the request's id and exactly
\* one of result and error: tools/list and tools/call of each declared tool
\* give a result; an unknown method, an unknown tool name or missing params
\* give an error, no result and no call on the store.
C31_OneResponsePerRequest ==
    last.op = "response" =>
      LET request == last.request
          response == last.response[1]
      IN /\ Len(last.response) = 1
         /\ response.id = request.id
         /\ (response.result = <<>>) # (response.error = <<>>)
         /\ (request.method = "tools/list" \/ CallsTool(request))
              <=> response.result # <<>>
         /\ response.error # <<>> => last.calls = <<>>
         /\ request.method = "tools/list"
              => response.result[1].tools = tools

\* C31 witness: a tools/call of search_docs with null arguments was answered
\* by a result that holds the handler's error text, under the request's id.
C31_Witness ==
    /\ last.op = "response"
    /\ last.request.id = <<7>>
    /\ CallsTool(last.request)
    /\ last.request.params[1].name = "search_docs"
    /\ last.request.params[1].arguments = <<>>
    /\ last.response[1].result
         = <<MCPToolResult("Error searching documents: ...")>>
    /\ documents # <<>>

\* C40: no call of one of the five tools, whatever its arguments and whether
\* it succeeds or answers with an error text, changes documents, path_index,
\* tag_index, the Full-Text Index or last_updated.
C40_ToolsAreReadOnly ==
    [][ (last'.op = "response" /\ CallsTool(last'.request))
          => UNCHANGED <<documents, path_index, tag_index, search_index,
                         last_updated>> ]_vars

\* C40 witness: get_statistics has answered from a store of three documents.
C40_Witness ==
    /\ last.op = "response"
    /\ CallsTool(last.request)
    /\ last.request.params[1].name = "get_statistics"
    /\ last.calls = <<"get_statistics">>
    /\ Len(documents) = 3
    /\ last_updated = 3

(***************************************************************************)
(* MCPServer.connected_clients, handle_websocket and broadcast_update      *)
(*                                                                         *)
(* connected_clients is a dict: its entries in insertion order, a deleted  *)
(* entry leaving a hole "".  An iterator over the dict remembers the size  *)
(* of the dict when it was made (used), the entry it looked at last (pos)  *)
(* and how many entries it still has to give (len).  Fewer entries are     *)
(* inserted here than a dict holds before it is rebuilt.                   *)
(***************************************************************************)

MaxBroadcasts == 2

\* The entries the dict holds.
Live(entries) == SelectSeq(entries, LAMBDA e : e # "")

\* connected_clients[client_id] = websocket
dict_set(entries, client_id) ==
    IF client_id \in Range(entries) THEN entries ELSE Append(entries, client_id)

\* del connected_clients[client_id], of a key that is there
dict_del(entries, client_id) ==
    [i \in DOMAIN entries |-> IF entries[i] = client_id THEN "" ELSE entries[i]]

\* for client_id in disconnected_clients: del connected_clients[client_id]
RECURSIVE remove_disconnected(_, _)
remove_disconnected(entries, disconnected_clients) ==
    IF disconnected_clients = <<>> THEN [entries |-> entries, error |-> ""]
    ELSE IF Head(disconnected_clients) \notin Range(Live(entries))
      THEN [entries |-> entries, error |-> "KeyError"]
    ELSE remove_disconnected(dict_del(entries, Head(disconnected_clients)),
                             Tail(disconnected_clients))

\* broadcast_update from the head of its for loop to the next await: the
\* iterator raises when the dict has changed, or gives the next client, whose
\* send_text is awaited, or is exhausted, and then the clients whose send
\* failed are deleted and the call returns.
broadcast_update(entries, b) ==
    LET rest == { i \in DOMAIN entries : i > b.pos /\ entries[i] # "" }
    IN IF b.used # Len(Live(entries))
         THEN [entries |-> entries,
               broadcast |-> [b EXCEPT !.pc = "raised", !.client = "",
                    !.error = "dictionary changed size during iteration"]]
       ELSE IF rest = {}
         THEN LET removed == remove_disconnected(entries, b.disconnected_clients)
              IN [entries |-> removed.entries,
                  broadcast |-> [b EXCEPT
                      !.pc = IF removed.error = "" THEN "done" ELSE "raised",
                      !.client = "",
                      !.error = removed.error]]
       ELSE IF b.len = 0
         THEN [entries |-> entries,
               broadcast |-> [b EXCEPT !.pc = "raised", !.client = "",
                    !.error = "dictionary keys changed during iteration"]]
       ELSE LET i == CHOOSE j \in rest : \A k \in rest : j <= k
            IN [entries |-> entries,
                broadcast |-> [b EXCEPT !.pc = "send", !.pos = i,
                                        !.len = @ - 1, !.client = entries[i]]]

SocketFrame ==
    /\ UNCHANGED <<files, is_watching, observer, event_queue, tasks,
                   dispatched, last, prev>>
    /\ UNCHANGED service_vars

\* handle_websocket(websocket, client_id): accept and register the client,
\* then wait in receive_text.
Connect ==
    \E client_id \in ClientIds :
        /\ websockets[client_id] = "new"
        /\ websockets' = [websockets EXCEPT ![client_id] = "receiving"]
        /\ connected_clients' = dict_set(connected_clients, client_id)
        /\ UNCHANGED broadcast
        /\ SocketFrame

\* The client closes its connection; its handler still waits in receive_text.
Close ==
    \E client_id \in ClientIds :
        /\ websockets[client_id] = "receiving"
        /\ websockets' = [websockets EXCEPT ![client_id] = "closed"]
        /\ UNCHANGED <<connected_clients, broadcast>>
        /\ SocketFrame

\* handle_websocket: receive_text raises WebSocketDisconnect and the finally
\* clause deletes the client's entry, if it is there.
Disconnect ==
    \E client_id \in ClientIds :
        /\ websockets[client_id] = "closed"
        /\ websockets' = [websockets EXCEPT ![client_id] = "finished"]
        /\ connected_clients' =
             IF client_id \in Range(Live(connected_clients))
               THEN dict_del(connected_clients, client_id)
               ELSE connected_clients
        /\ UNCHANGED broadcast
        /\ SocketFrame

\* broadcast_update(message) is called and runs to its first await or to its
\* return.
BroadcastUpdate ==
    /\ broadcast.pc \in {"idle", "done", "raised"}
    /\ broadcast.count < MaxBroadcasts
    /\ IF Live(connected_clients) = <<>>
         THEN /\ broadcast' = [NoBroadcast EXCEPT !.pc = "done",
                                                  !.count = broadcast.count + 1]
              /\ UNCHANGED connected_clients
         ELSE LET size == Len(Live(connected_clients))
                  step == broadcast_update(connected_clients,
                              [NoBroadcast EXCEPT !.used = size, !.len = size,
                                                  !.count = broadcast.count + 1])
              IN /\ broadcast' = step.broadcast
                 /\ connected_clients' = step.entries
    /\ UNCHANGED websockets
    /\ SocketFrame

\* The awaited send_text returns, or raises because the connection is closed,
\* and broadcast_update runs on to its next await or to its end.
SendReturns ==
    /\ broadcast.pc = "send"
    /\ LET sent == websockets[broadcast.client] = "receiving"
           step == broadcast_update(connected_clients,
                       IF sent THEN broadcast
                       ELSE [broadcast EXCEPT !.disconnected_clients =
                                                 Append(@, broadcast.client)])
       IN /\ broadcast' = step.broadcast
          /\ connected_clients' = step.entries
    /\ UNCHANGED websockets
    /\ SocketFrame

InitBroadcast ==
    /\ files = EmptyDirectory
    /\ is_watching = FALSE
    /\ observer = FALSE
    /\ event_queue = <<>>
    /\ tasks = <<>>
    /\ dispatched = <<>>
    /\ NoSockets
    /\ documents = <<>>
    /\ path_index = NewService.path_index
    /\ tag_index = NewService.tag_index
    /\ search_index = NewService.search_index
    /\ last_updated = 0
    /\ last = [op |-> "init"]
    /\ prev = <<>>

NextBroadcast ==
    \/ Connect
    \/ Close
    \/ Disconnect
    \/ BroadcastUpdate
    \/ SendReturns

BroadcastSpec == InitBroadcast /\ [][NextBroadcast]_vars

\* The clients whose handle_websocket call has not ended.
Handled == { c \in ClientIds : websockets[c] \in {"receiving", "closed"} }

\* The clients whose connection is open.
StillConnected == { c \in ClientIds : websockets[c] = "receiving" }

\* C39: broadcast_update completes without raising, and when it has returned
\* connected_clients holds the clients that are still connected and none
\* whose send failed, also when clients connect or disconnect while it is
\* suspended in a send.
C39_BroadcastSurvivesChurn ==
    /\ broadcast.pc # "raised"
    /\ broadcast.pc = "done" =>
         /\ StillConnected \subseteq Range(Live(connected_clients))
         /\ Range(Live(connected_clients)) \subseteq Handled
         /\ Range(broadcast.disconnected_clients)
              \cap Range(Live(connected_clients)) = {}

\* What the code does guarantee: broadcast_update raises only out of its for
\* statement over the dict, never out of the deletions, and the dict holds
\* the clients whose handler runs whatever the broadcast did.
BroadcastRaisesOnlyFromIteration ==
    /\ broadcast.pc = "raised" =>
         /\ broadcast.error \in {"dictionary changed size during iteration",
                                 "dictionary keys changed during iteration"}
         /\ broadcast.used # Len(Live(connected_clients))
              \/ \E c \in ClientIds : websockets[c] = "finished"
    /\ broadcast.pc \in {"done", "raised", "idle"} =>
         Range(Live(connected_clients)) \subseteq Handled

====
